---- MODULE Spec2Model ----
(***************************************************************************)
(* Model of the SportsLeadScraper agents:                                  *)
(*   - call_gemini_with_retry (triage_agent.py, Enrichment.py,             *)
(*     ai_discovery_agent.py): the bounded retry loop around the model.    *)
(*   - triage_agent.py: import-time load of processed_entities, main():    *)
(*     selection, per-row triage, batched flush to the five tier sheets.   *)
(*   - Enrichment.py: import-time load of saved_names / saved_websites,    *)
(*     main() and enrich_and_save_entity().                                *)
(* Strings the code inspects character by character (names) are sequences  *)
(* of one-character strings; model replies are sequences of tokens.        *)
(***************************************************************************)
EXTENDS Integers, Sequences, FiniteSets, TLC

VARIABLES
    \* ---- call_gemini_with_retry
    r_script,            \* which script's copy of the function runs
    r_outs,              \* what the model does at request 1, 2, 3
    rs,                  \* loop state: attempt, requests, sleeps, return value
    \* ---- triage_agent.py
    inputSheet,          \* rows of "Discovered Entities" below the header
    tierSheets,          \* rows of the five tier sheets below the header
    processed_entities,  \* set built at import time
    entities_to_triage,  \* list built by main()
    rows_to_save,        \* per-tier buffers
    i,                   \* index of the next row of entities_to_triage
    pc,                  \* position of main(): idle, loop, flush, done
    driver,              \* TRUE once make_driver() has been called in this run
    run,                 \* number of runs started
    last,                \* locals of the last loop iteration
    appendFailed,        \* tiers whose append_rows raised in the last flush
    \* ---- Enrichment.py
    rawSheet,            \* rows of "Extracted Raw Entities" below the header
    outputSheet,         \* rows of "Discovered Entities" below the header
    saved_names,         \* in-memory set
    saved_websites,      \* in-memory set
    entities_to_enrich,  \* list built by main()
    e_i,                 \* index of the next entity of entities_to_enrich
    e_pc,                \* position of main(): idle, loop, done
    e_run,               \* number of runs started
    e_last,              \* outcome of the last enrich_and_save_entity call
    attempted,           \* names the driver loop attempted: in earlier runs, in this run
    \* ---- safe_parse_json_from_text
    p_text,              \* the text handed to the function
    p_pc,                \* "called" or "returned"
    p_result,            \* the value returned
    \* ---- ai_discovery_agent.py
    raw_entity_sheet,    \* rows of "Extracted Raw Entities" below the header
    existing_raw_entities, \* in-memory set of (name, type) pairs
    d_pc,                \* position of main(): idle, mission, keyword, page, done, aborted
    d_m,                 \* index of the current mission
    d_keywords,          \* keywords of the current mission
    d_k,                 \* index of the current keyword
    d_pages,             \* number of source pages kept for the current keyword
    d_p,                 \* index of the current source page
    d_last,              \* the last model call and what became of it
    \* ---- main.py
    processed_entities_file, \* characters of processed_entities.txt
    main_processed_entities, \* set loaded by main() of main.py
    m_pc,                \* position of main(): idle, qualify, done
    m_run,               \* number of processes started
    m_checkpointed,      \* names passed to checkpoint_entity: earlier processes, this one
    m_last,              \* the last step of the qualifying loop
    \* ---- find_official_website_via_search (Enrichment.py)
    h3_elements,         \* the result headings of the search page, in page order
    candidates,          \* the list handed to the censor
    w_pc,                \* search, censor, returned
    w_reply,             \* what the model answers the censor's request
    w_return,            \* the value the function returns
    \* ---- map_entities_from_source (discovery_script.py)
    f_items,             \* the li / tr elements of the page, in document order
    f_base_url,          \* the URL of the page
    f_fails_at,          \* the item at which parsing raises, 0 for none
    f_pc,                \* called, returned
    f_leads,             \* the mapping returned: pairs of name and website
    \* ---- discovery_script.py
    anchors_file,        \* characters of processed_anchors.txt
    processed_anchors,   \* set loaded by main()
    master_sheet,        \* rows of "Master Entity Database" below the header
    existing_entities,   \* in-memory set of names
    a_pc,                \* idle, keyword, visit, save, done
    a_run,               \* number of processes started
    a_kw,                \* index of the current keyword
    urls_to_visit,       \* result URLs of the current keyword
    a_u,                 \* index of the next URL of urls_to_visit
    all_found_leads,     \* leads of the current keyword, by source URL
    a_fetched,           \* URLs this process has fetched, in order
    a_found              \* names found on each anchor since it was last fetched

rvars == <<r_script, r_outs, rs>>
tvars == <<inputSheet, tierSheets, processed_entities, entities_to_triage,
           rows_to_save, i, pc, driver, run, last, appendFailed>>
evars == <<rawSheet, outputSheet, saved_names, saved_websites,
           entities_to_enrich, e_i, e_pc, e_run, e_last, attempted>>
pvars == <<p_text, p_pc, p_result>>
dvars == <<raw_entity_sheet, existing_raw_entities, d_pc, d_m, d_keywords, d_k,
           d_pages, d_p, d_last>>
mvars == <<processed_entities_file, main_processed_entities, m_pc, m_run,
           m_checkpointed, m_last>>
wvars == <<h3_elements, candidates, w_pc, w_reply, w_return>>
fvars == <<f_items, f_base_url, f_fails_at, f_pc, f_leads>>
avars == <<anchors_file, processed_anchors, master_sheet, existing_entities,
           a_pc, a_run, a_kw, urls_to_visit, a_u, all_found_leads, a_fetched,
           a_found>>
zvars == <<mvars, wvars, fvars, avars>>
\* what the steps of one script leave alone
mframe == <<rvars, tvars, evars, pvars, dvars, wvars, fvars, avars>>
wframe == <<rvars, tvars, evars, pvars, dvars, mvars, fvars, avars>>
fframe == <<rvars, tvars, evars, pvars, dvars, mvars, wvars, avars>>
aframe == <<rvars, tvars, evars, pvars, dvars, mvars, wvars, fvars>>
xvars == <<pvars, dvars, zvars>>
vars == <<rvars, tvars, evars, xvars>>

\* ------------------------------------------------------------------ bounds
MaxRows == 2
MaxRuns == 2
MaxRawRows == 2
MaxEnrichRuns == 2

\* ------------------------------------------------------- program constants
MaxAttempts == 3
FollowerThreshold == 30000
MinCols == 8
RateLimitBase == 25
ServerErrorBase == 10
OtherErrorBase == 3

\* ------------------------------------------------------------ str methods
LowerChar(c) ==
    CASE c = "G" -> "g"
      [] c = "L" -> "l"
      [] c = "S" -> "s"
      [] OTHER -> c

lower(s) == [k \in 1..Len(s) |-> LowerChar(s[k])]

NL == "\n"

IsSpace(c) == c \in {" ", NL}

RECURSIVE lstrip(_)
lstrip(s) == IF s # <<>> /\ IsSpace(Head(s)) THEN lstrip(Tail(s)) ELSE s

RECURSIVE rstrip(_)
rstrip(s) ==
    IF s # <<>> /\ IsSpace(s[Len(s)]) THEN rstrip(SubSeq(s, 1, Len(s) - 1)) ELSE s

strip(s) == rstrip(lstrip(s))

\* re.sub(r'[^\d]', '', str(x)) followed by int(...)
IsDigit(c) == c \in {"0", "1", "2", "3", "4", "5", "6", "7", "8", "9"}

DigitVal(c) ==
    CASE c = "0" -> 0 [] c = "1" -> 1 [] c = "2" -> 2 [] c = "3" -> 3
      [] c = "4" -> 4 [] c = "5" -> 5 [] c = "6" -> 6 [] c = "7" -> 7
      [] c = "8" -> 8 [] c = "9" -> 9

DigitsOnly(s) == SelectSeq(s, IsDigit)

RECURSIVE ToInt(_)
ToInt(ds) ==
    IF ds = <<>> THEN 0
    ELSE 10 * ToInt(SubSeq(ds, 1, Len(ds) - 1)) + DigitVal(ds[Len(ds)])

\* ------------------------------------------------- JSON values and replies
\* A str is a record of its URL parts as urlparse sees them; the literal
\* "NA" has neither scheme nor netloc.
NA == [scheme |-> "", host |-> "", path |-> "NA"]
AbsentUrl == [scheme |-> "", host |-> "", path |-> "absent"]
AbsentData == [k |-> "absent", items |-> <<>>]

\* A parsed JSON value. t is "obj" (dict), "list" (non-empty list),
\* "scalar" (a non-zero number or non-empty string) or "none" (Python
\* None); a key the dict lacks holds the absent marker.
JBase ==
    [t |-> "obj", tier |-> "absent", is_match |-> "absent",
     follower_count |-> <<"absent">>, best_url |-> AbsentUrl,
     found_data |-> AbsentData, keywords |-> AbsentData,
     entities |-> AbsentData, other |-> FALSE]

None == [JBase EXCEPT !.t = "none"]
JList == [JBase EXCEPT !.t = "list"]
JScalar == [JBase EXCEPT !.t = "scalar"]
JEmptyList == [JBase EXCEPT !.t = "emptylist"]

Has(p, key) ==
    /\ p.t = "obj"
    /\ CASE key = "tier" -> p.tier # "absent"
         [] key = "is_match" -> p.is_match # "absent"
         [] key = "follower_count" -> p.follower_count # <<"absent">>
         [] key = "best_url" -> p.best_url # AbsentUrl
         [] key = "found_data" -> p.found_data # AbsentData
         [] key = "keywords" -> p.keywords # AbsentData
         [] key = "entities" -> p.entities # AbsentData
         [] key = "other" -> p.other

JsonKeys ==
    {"tier", "is_match", "follower_count", "best_url", "found_data", "keywords",
     "entities", "other"}

\* bool(parsed): None and {} are falsy; a non-empty dict or list, a non-zero
\* number and a non-empty string are truthy
Truthy(p) == p.t \in {"list", "scalar"} \/ \E key \in JsonKeys : Has(p, key)

\* A reply text is a sequence of tokens:
\*   junk      prose without braces or fences
\*   fence     ```json          endfence  ```
\*   obj       a well-formed flat {...} object, v is its value
\*   badobj    a {...} span that is not valid JSON
\*   list      a well-formed non-empty [...] without braces
\*   nested    a well-formed object one of whose values is a list of
\*             objects, {"k": [{...}]}; v is its value
\*   scalar    a bare JSON number or string, the whole reply
Tok(kind, v) == [k |-> kind, v |-> v]
Junk == Tok("junk", None)
Fence == Tok("fence", None)
EndFence == Tok("endfence", None)
BadObj == Tok("badobj", None)
ListTok == Tok("list", JList)
Obj(v) == Tok("obj", v)
Nested(v) == Tok("nested", v)
ScalarTok == Tok("scalar", JScalar)

IsBrace(tok) == tok.k \in {"obj", "badobj", "nested"}

\* json.loads(blob): [ok, v]
json_loads(blob) ==
    IF Len(blob) = 1 /\ blob[1].k \in {"obj", "list", "nested", "scalar"}
    THEN [ok |-> TRUE, v |-> blob[1].v]
    ELSE [ok |-> FALSE, v |-> None]

\* re.search(r'```json\s*(\{.*?\})\s*```', text, re.DOTALL): the leftmost
\* fence directly followed by a brace span, extended (non-greedy) to the
\* first brace span that is directly followed by three backticks (which a
\* closing fence and the start of another ```json both supply).
FencedStarts(text) ==
    {p \in 1..Len(text) :
        /\ text[p].k = "fence"
        /\ p + 1 <= Len(text) /\ IsBrace(text[p + 1])
        /\ \E q \in (p + 1)..(Len(text) - 1) :
              IsBrace(text[q]) /\ text[q + 1].k \in {"endfence", "fence"}}

Min(S) == CHOOSE x \in S : \A y \in S : x <= y

FencedBlob(text) ==
    LET p == Min(FencedStarts(text))
        q == Min({q \in (p + 1)..(Len(text) - 1) :
                    IsBrace(text[q]) /\ text[q + 1].k \in {"endfence", "fence"}})
    IN SubSeq(text, p + 1, q)

\* re.search(r'(\{.*?\})', text, re.DOTALL): from the first "{" to the
\* first "}" after it, which cuts a nested object short
BareStarts(text) == {p \in 1..Len(text) : IsBrace(text[p])}
BareBlob(text) ==
    LET p == Min(BareStarts(text))
    IN IF text[p].k = "nested" THEN <<BadObj>> ELSE SubSeq(text, p, p)

Mut_safe_parse_json_from_text(text) ==
    IF text = <<>> THEN None
    ELSE IF json_loads(text).ok THEN json_loads(text).v
    ELSE IF BareStarts(text) # {} /\ json_loads(BareBlob(text)).ok
         THEN json_loads(BareBlob(text)).v
    ELSE IF FencedStarts(text) # {} /\ json_loads(FencedBlob(text)).ok
         THEN json_loads(FencedBlob(text)).v
    ELSE None

\* the copy of triage_agent.py and Enrichment.py (two patterns)
safe_parse_json_from_text(text) ==
    IF text = <<>> THEN None
    ELSE IF json_loads(text).ok THEN json_loads(text).v
    ELSE IF FencedStarts(text) # {} /\ json_loads(FencedBlob(text)).ok
         THEN json_loads(FencedBlob(text)).v
    ELSE IF BareStarts(text) # {} /\ json_loads(BareBlob(text)).ok
         THEN json_loads(BareBlob(text)).v
    ELSE None

\* The copy of ai_discovery_agent.py has two more patterns, tried after the
\* first two:
\* re.search(r'```json\s*(\[.*?\])\s*```', text, re.DOTALL): the leftmost
\* fence directly followed by a "[", extended to the first "]" that is
\* directly followed by three backticks
StartsList(tok) == tok.k = "list"

FencedListStarts(text) ==
    {p \in 1..Len(text) :
        /\ text[p].k = "fence"
        /\ p + 1 <= Len(text) /\ StartsList(text[p + 1])
        /\ \E q \in (p + 1)..(Len(text) - 1) :
              StartsList(text[q]) /\ text[q + 1].k \in {"endfence", "fence"}}

FencedListBlob(text) ==
    LET p == Min(FencedListStarts(text))
        q == Min({q \in (p + 1)..(Len(text) - 1) :
                    StartsList(text[q]) /\ text[q + 1].k \in {"endfence", "fence"}})
    IN SubSeq(text, p + 1, q)

\* re.search(r'(\[.*?\])', text, re.DOTALL): from the first "[" to the
\* first "]" after it; inside an object that holds a list this is the list
ListKeys == {"keywords", "entities", "found_data"}

ListOf(v, key) ==
    CASE key = "keywords" -> v.keywords
      [] key = "entities" -> v.entities
      [] key = "found_data" -> v.found_data

HoldsList(tok) ==
    \/ tok.k \in {"list", "nested"}
    \/ tok.k = "obj" /\ \E key \in ListKeys : Has(tok.v, key)

BareListStarts(text) == {p \in 1..Len(text) : HoldsList(text[p])}

BareListBlob(text) ==
    LET tok == text[Min(BareListStarts(text))]
    IN IF tok.k = "obj" /\ \A key \in ListKeys : Has(tok.v, key) => ListOf(tok.v, key).items = <<>>
       THEN <<Tok("list", JEmptyList)>>
       ELSE <<ListTok>>

discovery_safe_parse_json_from_text(text) ==
    IF text = <<>> THEN None
    ELSE IF json_loads(text).ok THEN json_loads(text).v
    ELSE IF FencedStarts(text) # {} /\ json_loads(FencedBlob(text)).ok
         THEN json_loads(FencedBlob(text)).v
    ELSE IF BareStarts(text) # {} /\ json_loads(BareBlob(text)).ok
         THEN json_loads(BareBlob(text)).v
    ELSE IF FencedListStarts(text) # {} /\ json_loads(FencedListBlob(text)).ok
         THEN json_loads(FencedListBlob(text)).v
    ELSE IF BareListStarts(text) # {} /\ json_loads(BareListBlob(text)).ok
         THEN json_loads(BareListBlob(text)).v
    ELSE None

\* ------------------------------------------------- call_gemini_with_retry
Scripts == {"triage_agent", "Enrichment", "ai_discovery_agent"}

\* str(e).lower(): the message as a sequence of words
LowerWord(w) ==
    CASE w = "Quota" -> "quota"
      [] w = "LIMIT" -> "limit"
      [] w = "Server Error" -> "server error"
      [] OTHER -> w

error_text(msg) == [k \in 1..Len(msg) |-> LowerWord(msg[k])]

In(needle, text) == \E k \in 1..Len(text) : text[k] = needle

\* the sleep after an exception at 0-based attempt number
Mut_Backoff(script, attempt, msg) ==
    LET et == error_text(msg) IN
    IF In("quota", et) \/ In("limit", et)
    THEN RateLimitBase * (attempt + 1)
    ELSE IF script = "triage_agent" /\ (In("503", et) \/ In("server error", et))
    THEN ServerErrorBase * (attempt + 1)
    ELSE OtherErrorBase * (attempt + 1)

Backoff(script, attempt, msg) ==
    LET et == error_text(msg) IN
    IF In("quota", et) \/ In("limit", et) \/ In("429", et)
    THEN RateLimitBase * (attempt + 1)
    ELSE IF script = "triage_agent" /\ (In("503", et) \/ In("server error", et))
    THEN ServerErrorBase * (attempt + 1)
    ELSE OtherErrorBase * (attempt + 1)

\* What the model does at one request: a text, an empty response, or an
\* exception with a message.
OutText(text) == [k |-> "text", text |-> text, msg |-> <<>>]
OutEmpty == [k |-> "empty", text |-> <<>>, msg |-> <<>>]
OutExc(msg) == [k |-> "exc", text |-> <<>>, msg |-> msg]

RetryState0 ==
    [attempt |-> 0, requests |-> 0, sleeps |-> <<>>, returned |-> FALSE,
     text |-> <<>>, isNone |-> FALSE]

\* one iteration of "for attempt in range(3)"
Mut_retry_body(script, o, st) ==
    IF o.k = "text"
    THEN [st EXCEPT !.requests = @ + 1, !.returned = TRUE, !.text = o.text]
    ELSE IF o.k = "exc"
    THEN [st EXCEPT !.requests = @ + 1, !.attempt = @ + 1,
                    !.sleeps = Append(@, [n |-> st.attempt + 1,
                                          wait |-> Backoff(script, st.attempt, o.msg)])]
    ELSE [st EXCEPT !.requests = @ + 1, !.attempt = @ + 1]

retry_body(script, o, st) ==
    IF o.k = "text" /\ o.text # <<>>
    THEN [st EXCEPT !.requests = @ + 1, !.returned = TRUE, !.text = o.text]
    ELSE IF o.k = "exc"
    THEN [st EXCEPT !.requests = @ + 1, !.attempt = @ + 1,
                    !.sleeps = Append(@, [n |-> st.attempt + 1,
                                          wait |-> Backoff(script, st.attempt, o.msg)])]
    ELSE [st EXCEPT !.requests = @ + 1, !.attempt = @ + 1]

\* falling out of the loop: return None
retry_exhausted(st) == [st EXCEPT !.returned = TRUE, !.isNone = TRUE]

RECURSIVE retry_loop(_, _, _)
retry_loop(script, outs, st) ==
    IF st.returned THEN st
    ELSE IF st.attempt >= MaxAttempts THEN retry_exhausted(st)
    ELSE retry_loop(script, outs, retry_body(script, outs[st.attempt + 1], st))

call_gemini_with_retry(script, outs) == retry_loop(script, outs, RetryState0)

\* ---- inputs of the retry loop
Reply1 == <<Obj([JBase EXCEPT !.tier = "P3"])>>
Reply2 == <<Junk>>

ErrMsgs ==
    { <<"Quota", "exceeded">>, <<"429">>, <<"rate", "LIMIT">>,
      <<"503", "unavailable">>, <<"Server Error">>, <<"timeout">>,
      <<"503", "Quota">> }

RetryOuts ==
    {OutText(Reply1), OutText(Reply2), OutText(<<>>), OutEmpty}
        \cup {OutExc(m) : m \in ErrMsgs}

\* ---- idle values of the variables a specification does not use
Tiers == {"P1", "P2", "P3", "P4", "P5"}
NoRow == [name |-> <<>>, ncols |-> 0, website |-> NA, socials |-> <<NA>>]
NoLast ==
    [kind |-> "none", row |-> NoRow, is_match |-> FALSE, follower_count |-> 0,
     assigned_tier |-> "none", tier |-> "none", fetches |-> 0, calls |-> 0,
     visit |-> "none", label |-> "none", answered |-> FALSE, unreadable |-> {}]

RetryIdle ==
    /\ r_script = "triage_agent"
    /\ r_outs = <<>>
    /\ rs = RetryState0

TriageIdle ==
    /\ inputSheet = <<>>
    /\ tierSheets = [t \in Tiers |-> <<>>]
    /\ processed_entities = {}
    /\ entities_to_triage = <<>>
    /\ rows_to_save = [t \in Tiers |-> <<>>]
    /\ i = 1
    /\ pc = "idle"
    /\ driver = FALSE
    /\ run = 0
    /\ last = NoLast
    /\ appendFailed = {}

NoELast ==
    [outcome |-> "none", name |-> <<>>,
     site |-> [visitOk |-> FALSE,
               info |-> [phone |-> "absent", contacts |-> AbsentData,
                         socials |-> AbsentData, address |-> "absent"]],
     pass1 |-> [phone |-> "NA", contacts |-> <<>>, socials |-> <<>>,
                address |-> "NA", notes |-> ""],
     searched |-> {}, socials_found |-> <<>>, phone_found |-> <<>>]
NoAttempts == [prev |-> {}, cur |-> {}]

EnrichIdle ==
    /\ rawSheet = <<>>
    /\ outputSheet = <<>>
    /\ saved_names = {}
    /\ saved_websites = {}
    /\ entities_to_enrich = <<>>
    /\ e_i = 1
    /\ e_pc = "idle"
    /\ e_run = 0
    /\ e_last = NoELast
    /\ attempted = NoAttempts

ParseIdle ==
    /\ p_text = <<>>
    /\ p_pc = "idle"
    /\ p_result = None

NoDLast ==
    [call |-> "none", answered |-> FALSE, shape |-> "none", raised |-> FALSE,
     data |-> 0]

DiscoveryIdle ==
    /\ raw_entity_sheet = <<>>
    /\ existing_raw_entities = {}
    /\ d_pc = "idle"
    /\ d_m = 1
    /\ d_keywords = <<>>
    /\ d_k = 1
    /\ d_pages = 0
    /\ d_p = 1
    /\ d_last = NoDLast

NoMLast == [kind |-> "none", name |-> <<>>, before |-> <<>>]

MainIdle ==
    /\ processed_entities_file = <<>>
    /\ main_processed_entities = {}
    /\ m_pc = "idle"
    /\ m_run = 0
    /\ m_checkpointed = NoAttempts
    /\ m_last = NoMLast

WebsiteIdle ==
    /\ h3_elements = <<>>
    /\ candidates = <<>>
    /\ w_pc = "idle"
    /\ w_reply = <<>>
    /\ w_return = NA

MapIdle ==
    /\ f_items = <<>>
    /\ f_base_url = NA
    /\ f_fails_at = 0
    /\ f_pc = "idle"
    /\ f_leads = {}

AnchorUrls == {<<"u", "1">>, <<"u", "2">>}
NoLeads == [u \in AnchorUrls |-> {}]

AnchorsIdle ==
    /\ anchors_file = <<>>
    /\ processed_anchors = {}
    /\ master_sheet = <<>>
    /\ existing_entities = {}
    /\ a_pc = "idle"
    /\ a_run = 0
    /\ a_kw = 1
    /\ urls_to_visit = <<>>
    /\ a_u = 1
    /\ all_found_leads = NoLeads
    /\ a_fetched = <<>>
    /\ a_found = NoLeads

LaterIdle == MainIdle /\ WebsiteIdle /\ MapIdle /\ AnchorsIdle

OthersIdle == ParseIdle /\ DiscoveryIdle /\ LaterIdle

\* ------------------------------ specification of call_gemini_with_retry
RetryInit ==
    /\ r_script \in Scripts
    /\ r_outs \in [1..MaxAttempts -> RetryOuts]
    /\ rs = RetryState0
    /\ TriageIdle
    /\ EnrichIdle
    /\ OthersIdle

RetryAttempt ==
    /\ ~rs.returned
    /\ rs.attempt < MaxAttempts
    /\ rs' = retry_body(r_script, r_outs[rs.attempt + 1], rs)
    /\ UNCHANGED <<r_script, r_outs, tvars, evars, xvars>>

RetryExhausted ==
    /\ ~rs.returned
    /\ rs.attempt >= MaxAttempts
    /\ rs' = retry_exhausted(rs)
    /\ UNCHANGED <<r_script, r_outs, tvars, evars, xvars>>

RetryNext == RetryAttempt \/ RetryExhausted

SpecRetry == RetryInit /\ [][RetryNext]_vars

\* ---- C9
NonEmptyOut(o) == o.k = "text" /\ o.text # <<>>

\* C9: call_gemini_with_retry issues at most 3 model requests; a returned
\* text is the text of the first non-empty response and no request follows
\* it; an empty response counts as a failed attempt; after 3 failed attempts
\* the function returns None.
C9_RetryBounded ==
    /\ rs.requests <= MaxAttempts
    /\ \A n \in 1..rs.requests :
          n < rs.requests \/ ~rs.returned \/ rs.isNone => ~NonEmptyOut(r_outs[n])
    /\ ~rs.returned => rs.attempt = rs.requests
    /\ rs.returned /\ ~rs.isNone =>
          /\ rs.requests >= 1
          /\ NonEmptyOut(r_outs[rs.requests])
          /\ rs.text = r_outs[rs.requests].text
    /\ rs.returned /\ rs.isNone =>
          /\ rs.requests = MaxAttempts
          /\ rs.text = <<>>

\* a call that got an empty response first and a text second
C9_Witness ==
    /\ rs.returned /\ ~rs.isNone
    /\ rs.requests = 2
    /\ r_outs[1].k \in {"empty", "text"}
    /\ ~NonEmptyOut(r_outs[1])

\* ---- C10
RateLimited(msg) ==
    \E k \in 1..Len(msg) : LowerWord(msg[k]) \in {"quota", "limit", "429"}

ServerError(msg) ==
    \E k \in 1..Len(msg) : LowerWord(msg[k]) \in {"503", "server error"}

\* C10 as stated: after an exception on attempt n the delay is 25*n when
\* the message indicates rate limiting or quota and 3*n for every other
\* error.
C10_Original ==
    \A k \in 1..Len(rs.sleeps) :
        LET n == rs.sleeps[k].n
            msg == r_outs[n].msg
        IN rs.sleeps[k].wait = IF RateLimited(msg) THEN 25 * n ELSE 3 * n

\* C10 amended: the delay is 25*n for a rate-limit or quota message; else,
\* in triage_agent only, 10*n for a message containing "503" or "server
\* error"; else 3*n.  Exactly one sleep follows each exception.
C10_Backoff ==
    /\ \A k \in 1..Len(rs.sleeps) :
          LET n == rs.sleeps[k].n
              msg == r_outs[n].msg
          IN /\ r_outs[n].k = "exc"
             /\ rs.sleeps[k].wait =
                   IF RateLimited(msg) THEN 25 * n
                   ELSE IF r_script = "triage_agent" /\ ServerError(msg) THEN 10 * n
                   ELSE 3 * n
    /\ Len(rs.sleeps) = Cardinality({n \in 1..rs.requests : r_outs[n].k = "exc"})

\* three exceptions in one call: a server error, a rate limit, another error
C10_Witness ==
    /\ r_script = "triage_agent"
    /\ Len(rs.sleeps) = 3
    /\ rs.sleeps[1].wait = 10
    /\ rs.sleeps[2].wait = 50
    /\ rs.sleeps[3].wait = 9

\* ------------------------------------------------------- triage_agent.py
\* A sheet row: row[0] name, len(row), row[2] website, row[5] socials as
\* the list of its comma-separated parts (the cell "NA" is <<NA>>).
Url(scheme, host, path) == [scheme |-> scheme, host |-> host, path |-> path]
Site == Url("https", "gl.com", "")
Insta == Url("https", "instagram.com", "/gl")

Row(name, ncols, website, socials) ==
    [name |-> name, ncols |-> ncols, website |-> website, socials |-> socials]

TriageRows ==
    { Row(<<"G", "l">>, 9, NA, <<Insta>>),
      Row(<<"g", "l">>, 9, NA, <<NA>>),
      Row(<<" ", "g", "l">>, 9, Site, <<NA>>),
      Row(<<"S", "c">>, 9, Site, <<Insta>>),
      Row(<<"S", "c">>, 9, NA, <<Insta, Insta>>),
      Row(<<"s", "c">>, 7, NA, <<NA>>) }

RECURSIVE SeqsUpTo(_, _)
SeqsUpTo(S, n) ==
    IF n = 0 THEN {<<>>}
    ELSE LET shorter == SeqsUpTo(S, n - 1)
         IN shorter \cup {Append(q, x) : q \in {r \in shorter : Len(r) = n - 1}, x \in S}

\* ---- what the model may answer
VerifyObj(m, fc) == [JBase EXCEPT !.is_match = m, !.follower_count = fc]

VerifyReplies ==
    { <<Obj(VerifyObj("true", <<"5", "0", "0", "0">>))>>,
      <<Obj(VerifyObj("true", <<"2", "9", "9", "9", "9">>))>>,
      <<Obj(VerifyObj("true", <<"3", "0", "0", "0", "0">>))>>,
      <<Junk, Obj(VerifyObj("true", <<"3", "0", "0", "0", "1">>))>>,
      <<Fence, Obj(VerifyObj("true", <<"3", "0", "k">>)), EndFence>>,
      <<Obj(VerifyObj("true", <<"absent">>))>>,
      <<Obj(VerifyObj("false", <<"5", "0", "0", "0">>))>>,
      <<Obj(VerifyObj("absent", <<"5", "0", "0", "0">>))>>,
      <<ListTok>>,
      <<Obj(JBase)>>,
      <<Junk, BadObj>> }

CriticReplies ==
    { <<Obj([JBase EXCEPT !.tier = "P3"])>>,
      <<Fence, Obj([JBase EXCEPT !.tier = "P4"]), EndFence>>,
      <<Junk, Obj([JBase EXCEPT !.tier = "P2"])>>,
      <<Obj([JBase EXCEPT !.tier = "P9"])>>,
      <<Obj([JBase EXCEPT !.other = TRUE])>>,
      <<ListTok>>,
      <<Junk>> }

\* the three requests of one call: answered at once, answered at the third
\* request (by the reply late), or never answered
NeverAnswered == <<OutExc(<<"timeout">>), OutEmpty, OutExc(<<"503", "unavailable">>)>>

Scenarios(replies, late) ==
    {<<OutText(t), OutEmpty, OutEmpty>> : t \in replies}
        \cup {<<OutEmpty, OutExc(<<"429">>), OutText(late)>>, NeverAnswered}

\* a page visit that raises (no request follows), or one that succeeds
Visits(replies, late) ==
    {[visitOk |-> FALSE, outs |-> NeverAnswered]}
        \cup {[visitOk |-> TRUE, outs |-> o] : o \in Scenarios(replies, late)}

VerifyLate == <<Obj(VerifyObj("true", <<"5", "0", "0", "0">>))>>
CriticLate == <<Obj([JBase EXCEPT !.tier = "P3"])>>

response_text(r) == IF r.isNone THEN <<>> ELSE r.text

\* int(re.sub(r'[^\d]', '', str(follower_count))), 0 when int() raises;
\* parsed.get("follower_count", 0) is 0 when the key is missing
to_follower_count(v) ==
    LET s == IF v = <<"absent">> THEN <<"0">> ELSE v
        ds == DigitsOnly(s)
    IN IF ds = <<>> THEN 0 ELSE ToInt(ds)

\* visitOk: driver.get and the body read succeed; answered: the retry loop
\* returned a text
Mut_call_gemini_to_verify_and_get_followers(visitOk, outs) ==
    IF ~visitOk
    THEN [is_match |-> FALSE, follower_count |-> 0, fetches |-> 1, calls |-> 0,
          answered |-> FALSE]
    ELSE LET r == call_gemini_with_retry("triage_agent", outs)
             parsed == safe_parse_json_from_text(response_text(r))
         IN IF Truthy(parsed) /\ parsed.t = "obj"
            THEN [is_match |-> parsed.is_match = "true",
                  follower_count |-> to_follower_count(parsed.follower_count),
                  fetches |-> 1, calls |-> r.requests, answered |-> ~r.isNone]
            ELSE [is_match |-> TRUE, follower_count |-> 0,
                  fetches |-> 1, calls |-> r.requests, answered |-> ~r.isNone]

call_gemini_to_verify_and_get_followers(visitOk, outs) ==
    IF ~visitOk
    THEN [is_match |-> FALSE, follower_count |-> 0, fetches |-> 1, calls |-> 0,
          answered |-> FALSE]
    ELSE LET r == call_gemini_with_retry("triage_agent", outs)
             parsed == safe_parse_json_from_text(response_text(r))
         IN IF Truthy(parsed) /\ parsed.t = "obj"
            THEN [is_match |-> parsed.is_match = "true",
                  follower_count |-> to_follower_count(parsed.follower_count),
                  fetches |-> 1, calls |-> r.requests, answered |-> ~r.isNone]
            ELSE [is_match |-> FALSE, follower_count |-> 0,
                  fetches |-> 1, calls |-> r.requests, answered |-> ~r.isNone]

\* label: the tier the model named, "noparse" when none was read
call_gemini_critic_brain(visitOk, outs) ==
    IF ~visitOk
    THEN [tier |-> "P4", label |-> "noparse", fetches |-> 1, calls |-> 0,
          answered |-> FALSE]
    ELSE LET r == call_gemini_with_retry("triage_agent", outs)
             parsed == safe_parse_json_from_text(response_text(r))
         IN IF Truthy(parsed) /\ Has(parsed, "tier")
            THEN [tier |-> parsed.tier, label |-> parsed.tier,
                  fetches |-> 1, calls |-> r.requests, answered |-> ~r.isNone]
            ELSE [tier |-> "P4", label |-> "noparse",
                  fetches |-> 1, calls |-> r.requests, answered |-> ~r.isNone]

\* the branch of main() after the social check
Mut_social_tier(is_match, follower_count) ==
    IF ~is_match THEN "P5"
    ELSE IF follower_count <= FollowerThreshold THEN "P1"
    ELSE "P2"

social_tier(is_match, follower_count) ==
    IF ~is_match THEN "P5"
    ELSE IF follower_count < FollowerThreshold THEN "P1"
    ELSE "P2"

\* the branch of main() after the critic
website_tier(assigned_tier) == IF assigned_tier = "P2" THEN "P3" ELSE "P4"

\* the branch of main() for a row without website and without socials
no_presence_tier == "P5"

\* processed_entities as the import-time loop builds it from the sheets
\* whose first column could be read
load_processed_entities(sheets, readable) ==
    UNION {{lower(sheets[t][k].name) : k \in 1..Len(sheets[t])} : t \in readable}

\* the selection loop of main()
select_entities(rows, processed) ==
    LET keep(row) == row.ncols > 0 /\ lower(strip(row.name)) \notin processed
    IN SelectSeq(rows, keep)

\* get_all_values() pads every row to the width of the used range
Rectangular(rows) ==
    \A j \in 1..Len(rows), k \in 1..Len(rows) : rows[j].ncols = rows[k].ncols

TriageInit ==
    /\ inputSheet \in {rows \in SeqsUpTo(TriageRows, MaxRows) : Rectangular(rows)}
    /\ tierSheets = [t \in Tiers |-> <<>>]
    /\ processed_entities = {}
    /\ entities_to_triage = <<>>
    /\ rows_to_save = [t \in Tiers |-> <<>>]
    /\ i = 1
    /\ pc = "idle"
    /\ driver = FALSE
    /\ run = 0
    /\ last = NoLast
    /\ appendFailed = {}
    /\ RetryIdle
    /\ EnrichIdle
    /\ OthersIdle

\* Import of the module and main() up to the loop: load processed_entities
\* (a sheet whose column read raises is skipped with a warning), select the
\* rows to triage, return at once when there are none, else launch the
\* browser.
StartRun ==
    /\ pc \in {"idle", "done"}
    /\ run < MaxRuns
    /\ \E unreadable \in {{}} \cup {{t} : t \in Tiers} :
          LET pe == load_processed_entities(tierSheets, Tiers \ unreadable)
              sel == select_entities(inputSheet, pe)
          IN /\ processed_entities' = pe
             /\ entities_to_triage' = sel
             /\ pc' = IF sel = <<>> THEN "done" ELSE "loop"
             /\ driver' = (sel # <<>>)
             /\ last' = [NoLast EXCEPT !.kind = "start", !.unreadable = unreadable]
    /\ rows_to_save' = [t \in Tiers |-> <<>>]
    /\ i' = 1
    /\ run' = run + 1
    /\ appendFailed' = {}
    /\ UNCHANGED <<inputSheet, tierSheets, rvars, evars, xvars>>

InLoop == pc = "loop" /\ i <= Len(entities_to_triage)

Mut_Buffer(tier, row) ==
    [rows_to_save EXCEPT ![tier] = Append(@, row), !["P5"] = Append(@, row)]

Buffer(tier, row) == [rows_to_save EXCEPT ![tier] = Append(@, row)]

\* len(row) < 8: continue
SkipMalformed ==
    /\ InLoop
    /\ LET row == entities_to_triage[i] IN
          /\ row.ncols < MinCols
          /\ last' = [NoLast EXCEPT !.kind = "malformed", !.row = row]
    /\ i' = i + 1
    /\ UNCHANGED <<inputSheet, tierSheets, processed_entities, entities_to_triage,
                   rows_to_save, pc, driver, run, appendFailed, rvars, evars, xvars>>

\* website_url == "NA" and socials_str != "NA"
TriageSocial ==
    /\ InLoop
    /\ LET row == entities_to_triage[i] IN
          /\ row.ncols >= MinCols
          /\ row.website = NA
          /\ row.socials # <<NA>>
          /\ \E sc \in Visits(VerifyReplies, VerifyLate) :
                LET visitOk == sc.visitOk
                    v == call_gemini_to_verify_and_get_followers(visitOk, sc.outs)
                    tier == social_tier(v.is_match, v.follower_count)
                IN /\ rows_to_save' = Buffer(tier, row)
                   /\ last' = [NoLast EXCEPT
                                 !.kind = "social", !.row = row,
                                 !.is_match = v.is_match,
                                 !.follower_count = v.follower_count,
                                 !.tier = tier, !.fetches = v.fetches,
                                 !.calls = v.calls, !.answered = v.answered,
                                 !.visit = IF visitOk THEN "ok" ELSE "raised"]
    /\ i' = i + 1
    /\ UNCHANGED <<inputSheet, tierSheets, processed_entities, entities_to_triage,
                   pc, driver, run, appendFailed, rvars, evars, xvars>>

\* website_url == "NA" and socials_str == "NA"
TriageNoPresence ==
    /\ InLoop
    /\ LET row == entities_to_triage[i] IN
          /\ row.ncols >= MinCols
          /\ row.website = NA
          /\ row.socials = <<NA>>
          /\ rows_to_save' = Buffer(no_presence_tier, row)
          /\ last' = [NoLast EXCEPT !.kind = "nopresence", !.row = row,
                                    !.tier = no_presence_tier]
    /\ i' = i + 1
    /\ UNCHANGED <<inputSheet, tierSheets, processed_entities, entities_to_triage,
                   pc, driver, run, appendFailed, rvars, evars, xvars>>

\* website_url != "NA"
TriageWebsite ==
    /\ InLoop
    /\ LET row == entities_to_triage[i] IN
          /\ row.ncols >= MinCols
          /\ row.website # NA
          /\ \E sc \in Visits(CriticReplies, CriticLate) :
                LET visitOk == sc.visitOk
                    c == call_gemini_critic_brain(visitOk, sc.outs)
                    tier == website_tier(c.tier)
                IN /\ rows_to_save' = Buffer(tier, row)
                   /\ last' = [NoLast EXCEPT
                                 !.kind = "website", !.row = row,
                                 !.assigned_tier = c.tier, !.label = c.label,
                                 !.tier = tier, !.fetches = c.fetches,
                                 !.calls = c.calls, !.answered = c.answered,
                                 !.visit = IF visitOk THEN "ok" ELSE "raised"]
    /\ i' = i + 1
    /\ UNCHANGED <<inputSheet, tierSheets, processed_entities, entities_to_triage,
                   pc, driver, run, appendFailed, rvars, evars, xvars>>

\* the key order of OUTPUT_SHEETS, which rows_to_save.items() follows
TierOrder == <<"P1", "P2", "P3", "P4", "P5">>

\* The flush loop from the n-th tier on; failing is the set of tiers whose
\* append_rows raises.  Yields the sheets and the tiers whose append failed.
RECURSIVE Mut_flush_from(_, _, _, _)
Mut_flush_from(n, sheets, buffers, failing) ==
    IF n > Len(TierOrder) THEN [sheets |-> sheets, failed |-> {}]
    ELSE LET t == TierOrder[n] IN
         IF buffers[t] = <<>> THEN Mut_flush_from(n + 1, sheets, buffers, failing)
         ELSE IF t \in failing THEN [sheets |-> sheets, failed |-> {t}]
         ELSE Mut_flush_from(n + 1, [sheets EXCEPT ![t] = @ \o buffers[t]],
                             buffers, failing)

RECURSIVE flush_from(_, _, _, _)
flush_from(n, sheets, buffers, failing) ==
    IF n > Len(TierOrder) THEN [sheets |-> sheets, failed |-> {}]
    ELSE LET t == TierOrder[n] IN
         IF buffers[t] = <<>> THEN flush_from(n + 1, sheets, buffers, failing)
         ELSE IF t \in failing
         THEN LET rest == flush_from(n + 1, sheets, buffers, failing)
              IN [sheets |-> rest.sheets, failed |-> rest.failed \cup {t}]
         ELSE flush_from(n + 1, [sheets EXCEPT ![t] = @ \o buffers[t]],
                         buffers, failing)

\* The final step: one append_rows per non-empty buffer; a failed append is
\* logged and the next tier is tried.
Flush ==
    /\ pc = "loop"
    /\ i > Len(entities_to_triage)
    /\ \E failing \in SUBSET {t \in Tiers : rows_to_save[t] # <<>>} :
          LET res == flush_from(1, tierSheets, rows_to_save, failing)
          IN /\ tierSheets' = res.sheets
             /\ appendFailed' = res.failed
    /\ pc' = "done"
    /\ last' = [NoLast EXCEPT !.kind = "flush"]
    /\ UNCHANGED <<inputSheet, processed_entities, entities_to_triage,
                   rows_to_save, i, driver, run, rvars, evars, xvars>>

\* KeyboardInterrupt inside the loop: caught by main(), which then only
\* closes the browser
Interrupt ==
    /\ InLoop
    /\ pc' = "done"
    /\ last' = [NoLast EXCEPT !.kind = "interrupt"]
    /\ UNCHANGED <<inputSheet, tierSheets, processed_entities, entities_to_triage,
                   rows_to_save, i, driver, run, appendFailed, rvars, evars, xvars>>

TriageNext ==
    \/ StartRun
    \/ SkipMalformed
    \/ TriageSocial
    \/ TriageNoPresence
    \/ TriageWebsite
    \/ Flush
    \/ Interrupt

SpecTriage == TriageInit /\ [][TriageNext]_vars

\* ---- claims about triage_agent.py
normalized(name) == lower(strip(name))

TierCells == {<<t, k>> : t \in Tiers, k \in 1..(MaxRows * MaxRuns + MaxRows)}
Written == {c \in TierCells : c[2] <= Len(tierSheets[c[1]])}
WrittenNames == {tierSheets[c[1]][c[2]].name : c \in Written}

BufferedLast(tier, row) ==
    /\ rows_to_save[tier] # <<>>
    /\ rows_to_save[tier][Len(rows_to_save[tier])] = row

\* C1: no normalized entity name (trimmed, lower-cased) appears in more than
\* one row of the five tier sheets taken together, over any number of runs.
C1_NoDuplicateNames ==
    \A c1 \in Written, c2 \in Written :
        c1 # c2 =>
            normalized(tierSheets[c1[1]][c1[2]].name)
                # normalized(tierSheets[c2[1]][c2[2]].name)

\* C2: with the names of all five tier sheets loaded at startup, an entity
\* whose name was written to a tier sheet by a completed earlier run is not
\* selected by a later run (so no page fetch and no model call is issued for
\* it), and a run with nothing to triage ends without launching the browser.
C2_TriagedNotSelected ==
    processed_entities = load_processed_entities(tierSheets, Tiers) =>
        /\ pc = "loop" =>
              \A k \in 1..Len(entities_to_triage) :
                  entities_to_triage[k].name \notin WrittenNames
        /\ last.fetches + last.calls > 0 => last.row.name \notin WrittenNames
        /\ pc = "done" /\ entities_to_triage = <<>> => ~driver

\* C3: a row with a website whose site the critic grades "P3" is buffered
\* for the P3 sheet, and one graded "P4" is buffered for the P4 sheet.
C3_CriticTierRouted ==
    last.kind = "website" /\ last.label \in {"P3", "P4"} =>
        last.tier = last.label /\ BufferedLast(last.label, last.row)

\* C4: no website, socials, verified match: a follower count below 30000 is
\* buffered for P1, a count of 30000 or more (30000 included) for P2.
C4_FollowerThreshold ==
    last.kind = "social" /\ last.is_match =>
        /\ last.follower_count < 30000 =>
              last.tier = "P1" /\ BufferedLast("P1", last.row)
        /\ last.follower_count >= 30000 =>
              last.tier = "P2" /\ BufferedLast("P2", last.row)

\* a verified social page with exactly 30000 followers went to P2
C4_Witness ==
    /\ last.kind = "social" /\ last.is_match
    /\ last.follower_count = 30000
    /\ BufferedLast("P2", last.row)

\* C5: no website and no socials: buffered for P5 with no page fetch and no
\* model call; no website, socials, social link not verified (the visit
\* raised, the model returned nothing, or the reply is no match): buffered
\* for P5.
C5_RejectRouting ==
    /\ last.kind = "nopresence" =>
          /\ last.tier = "P5" /\ BufferedLast("P5", last.row)
          /\ last.fetches = 0 /\ last.calls = 0
    /\ last.kind = "social"
          /\ (last.visit = "raised" \/ ~last.answered \/ ~last.is_match) =>
          last.tier = "P5" /\ BufferedLast("P5", last.row)

\* the social page was read, the model never answered, the row went to P5
C5_Witness ==
    /\ last.kind = "social" /\ last.visit = "ok"
    /\ ~last.answered /\ last.calls = 3
    /\ BufferedLast("P5", last.row)

\* C6: a row with a website whose critic returns an unrecognized label (not
\* "P3" or "P4") or nothing parseable, or whose site visit raises, is
\* buffered for P4.
C6_CriticDefaultsToP4 ==
    last.kind = "website"
        /\ (last.visit = "raised" \/ last.label \notin {"P3", "P4"}) =>
        last.tier = "P4" /\ BufferedLast("P4", last.row)

EndsWith(sheet, rows) ==
    /\ Len(sheet) >= Len(rows)
    /\ SubSeq(sheet, Len(sheet) - Len(rows) + 1, Len(sheet)) = rows

\* C16: after the flush, every tier with buffered rows either had its append
\* fail or has exactly its buffered rows at the end of its sheet: a failed
\* append for one tier neither stops the appends of the tiers after it nor
\* alters their rows.
C16_FlushContinues ==
    last.kind = "flush" =>
        \A t \in Tiers :
            rows_to_save[t] # <<>> =>
                t \in appendFailed \/ EndsWith(tierSheets[t], rows_to_save[t])

\* the append for P1 failed and the rows buffered for P5 were still written
C16_Witness ==
    /\ last.kind = "flush"
    /\ "P1" \in appendFailed
    /\ rows_to_save["P5"] # <<>> /\ "P5" \notin appendFailed
    /\ EndsWith(tierSheets["P5"], rows_to_save["P5"])

\* C17: when main() has ended on a KeyboardInterrupt, the rows that were
\* buffered before the interrupt are at the end of their tier sheets.
C17_InterruptDrainsBuffers ==
    last.kind = "interrupt" /\ pc = "done" =>
        \A t \in Tiers :
            rows_to_save[t] # <<>> => EndsWith(tierSheets[t], rows_to_save[t])

\* C18: when the name column of a tier sheet cannot be read at startup, the
\* run ends before the triage loop: no entity is selected for processing and
\* the browser is not launched.
C18_UnreadableStoreAborts ==
    last.kind = "start" /\ last.unreadable # {} => pc # "loop" /\ ~driver

Mut_simple_tier(row) == IF row.website = NA THEN "P3" ELSE "P2"

\* test.py, the three-tier sorter: the tier of a row of at least 8 columns
simple_tier(row) ==
    IF row.website = NA
    THEN (IF row.socials # <<NA>> THEN "P1" ELSE "P3")
    ELSE "P2"

\* the pairwise collapse of the five tiers onto three
Collapse(tier) ==
    CASE tier \in {"P1", "P2"} -> "P1"
      [] tier \in {"P3", "P4"} -> "P2"
      [] tier = "P5" -> "P3"

\* C22: for every row and every model response, the tier the three-tier
\* sorter gives the row is the collapse of the tier the five-tier triage
\* gives it.
C22_ThreeTierIsCollapse ==
    last.kind \in {"social", "nopresence", "website"} =>
        simple_tier(last.row) = Collapse(last.tier)

\* C22 as amended: the three-tier tier is the collapse of the five-tier tier
\* except for a row without website whose social link the model does not
\* verify: the five-tier triage rejects it (P5), the three-tier sorter, which
\* never consults the model, keeps it in P1.
C22_CollapseButUnverified ==
    last.kind \in {"social", "nopresence", "website"} =>
        simple_tier(last.row) =
            IF last.kind = "social" /\ last.tier = "P5" THEN "P1"
            ELSE Collapse(last.tier)

C22_Witness ==
    /\ last.kind = "social"
    /\ last.tier = "P5"
    /\ simple_tier(last.row) = "P1"

C22_WitnessCollapse ==
    /\ last.kind = "social"
    /\ last.tier = "P2"
    /\ simple_tier(last.row) = "P1"

BufferedCount ==
    Len(rows_to_save["P1"]) + Len(rows_to_save["P2"]) + Len(rows_to_save["P3"])
        + Len(rows_to_save["P4"]) + Len(rows_to_save["P5"])

\* C19: when a run has ended with its flush, every row it selected was
\* buffered for some tier, and every tier with buffered rows had an append
\* attempted (it failed, or the rows are at the end of the tier's sheet).
C19_EverySelectedRowWritten ==
    last.kind = "flush" =>
        /\ BufferedCount = Len(entities_to_triage)
        /\ \A t \in Tiers :
              rows_to_save[t] # <<>> =>
                  t \in appendFailed \/ EndsWith(tierSheets[t], rows_to_save[t])

\* ----------------------------------------------------------- Enrichment.py
\* A row of "Extracted Raw Entities": row[0], len(row), row[1], row[2].
RawRow(name, ncols) ==
    [name |-> name, ncols |-> ncols, type |-> "League", source_url |-> "src"]

RawRows ==
    { RawRow(<<"G", "l">>, 3), RawRow(<<" ", "g", "l">>, 3),
      RawRow(<<"S", "c">>, 3), RawRow(<<"L">>, 2) }

\* the empty string, which the censor returns for {"best_url": ""}
BlankUrl == Url("", "", "")

\* what find_official_website_via_search may return
WebsiteChoices ==
    { NA, Url("https", "GL.com", "/home"), Url("https", "gl.com", ""),
      Url("", "", "gl.com"), BlankUrl }

LowerHost(h) ==
    CASE h = "GL.com" -> "gl.com"
      [] h = "M.Facebook.com" -> "m.facebook.com"
      [] OTHER -> h

\* str.lower() of a whole URL
url_lower(u) == [u EXCEPT !.host = LowerHost(@)]

\* f"{parsed.scheme}://{parsed.netloc}".lower() if both are present
clean_website(official_website) ==
    IF official_website = NA THEN NA
    ELSE IF official_website.scheme # "" /\ official_website.host # ""
    THEN Url(official_website.scheme, LowerHost(official_website.host), "")
    ELSE NA

\* items of a found_data list: a JSON string or a JSON number
Item(isStr, v) == [isStr |-> isStr, v |-> v]
FoundList(items) == [k |-> "list", items |-> items]
FoundObj(items) == [JBase EXCEPT !.found_data = FoundList(items)]

FoundReplies ==
    { <<Obj(FoundObj(<<Item(TRUE, "x1")>>))>>,
      <<Junk, Obj(FoundObj(<<Item(FALSE, "98")>>))>>,
      <<Obj(FoundObj(<<>>))>>,
      <<Obj([JBase EXCEPT !.other = TRUE])>>,
      <<ListTok>> }

FoundLate == <<Obj(FoundObj(<<Item(TRUE, "x2")>>))>>

\* the fallback searches of one entity: the search page cannot be read, or
\* it is read and the model answers at the first request
Searches(replies) ==
    {[visitOk |-> FALSE, outs |-> NeverAnswered]}
        \cup {[visitOk |-> TRUE, outs |-> <<OutText(t), OutEmpty, OutEmpty>>] :
                 t \in replies}

\* the list find_missing_data_via_google returns
find_missing_data_via_google(visitOk, outs) ==
    IF ~visitOk THEN <<>>
    ELSE LET r == call_gemini_with_retry("Enrichment", outs)
             parsed == safe_parse_json_from_text(response_text(r))
         IN IF Truthy(parsed) /\ parsed.t = "obj" /\ Has(parsed, "found_data")
            THEN parsed.found_data.items
            ELSE <<>>

\* ", ".join(items) raises TypeError on an item that is not a str
JoinRaises(items) == \E k \in 1..Len(items) : ~items[k].isStr

\* the cell ", ".join(items): its comma-separated parts
joined(items) == [k \in 1..Len(items) |-> items[k].v]

\* import-time load of the two sets from the output sheet
load_saved_websites(sheet) ==
    {url_lower(sheet[k].website) : k \in {j \in 1..Len(sheet) : sheet[j].website # NA}}

load_saved_names(sheet) ==
    {lower(strip(sheet[k].name)) : k \in {j \in 1..Len(sheet) : sheet[j].name # <<>>}}

\* unique_entities_map: the first row of each normalized name, in order
RECURSIVE unique_entities(_, _)
unique_entities(rows, seen) ==
    IF rows = <<>> THEN <<>>
    ELSE LET row == Head(rows)
             key == lower(strip(row.name))
         IN IF row.ncols >= 3 /\ key \notin seen
            THEN <<row>> \o unique_entities(Tail(rows), seen \cup {key})
            ELSE unique_entities(Tail(rows), seen)

select_to_enrich(rows, names) ==
    LET fresh(row) == lower(strip(row.name)) \notin names
    IN SelectSeq(unique_entities(rows, {}), fresh)

\* The functions Enrichment.py defines at module level.
EnrichmentFunctions ==
    {"safe_print", "safe_parse_json_from_text", "is_blacklisted",
     "random_human_pause", "make_driver", "human_like_scroll",
     "call_gemini_with_retry", "call_gemini_for_website_keyword",
     "call_gemini_to_censor_links", "call_gemini_to_enrich_website_text",
     "find_missing_data_via_google", "find_official_website_via_search",
     "enrich_and_save_entity", "pre_flight_check", "main"}

\* What a visit of the official site gives: whether driver.get and the body
\* read succeed, and the object the model returns for the page text (a key
\* it does not return is absent).
Info(phone, contacts, socials, address) ==
    [phone |-> phone, contacts |-> contacts, socials |-> socials, address |-> address]

NoInfo == Info("absent", AbsentData, AbsentData, "absent")
NoVisit == [visitOk |-> FALSE, info |-> NoInfo]

SiteVisits ==
    { NoVisit,
      [visitOk |-> TRUE,
       info |-> Info("p1", FoundList(<<Item(TRUE, "c1")>>),
                     FoundList(<<Item(TRUE, "s1")>>), "a1")],
      [visitOk |-> TRUE, info |-> Info("p1", AbsentData, AbsentData, "absent")] }

enriched_data0 ==
    [phone |-> "NA", contacts |-> <<>>, socials |-> <<>>, address |-> "NA",
     notes |-> ""]

\* Pass 1 (lines 378-399).  Line 386 calls call_gemini_to_enrich_website,
\* a name the module does not define: evaluating it raises NameError inside
\* the try block, whose handler sets the notes.
scrape_official_site(official_website, site) ==
    IF official_website = NA
    THEN [enriched_data0 EXCEPT !.notes = "No official website found. "]
    ELSE IF ~site.visitOk \/ "call_gemini_to_enrich_website" \notin EnrichmentFunctions
    THEN [enriched_data0 EXCEPT !.notes = "Site visit failed. "]
    ELSE IF site.info = NoInfo THEN enriched_data0
    ELSE [phone |-> IF site.info.phone = "absent" THEN "NA" ELSE site.info.phone,
          contacts |-> site.info.contacts.items,
          socials |-> site.info.socials.items,
          address |-> IF site.info.address = "absent" THEN "NA" ELSE site.info.address,
          notes |-> ""]

Mut_fallback_pass(pass1, socials_found, phone_found) ==
    [socials |-> pass1.socials, phone |-> pass1.phone, searched |-> {}]

\* Pass 2 (lines 401-414): which fallback searches are issued and what the
\* two fields hold afterwards; socials_found and phone_found are what the
\* searches return when issued.
fallback_pass(pass1, socials_found, phone_found) ==
    [socials |-> IF pass1.socials = <<>> /\ socials_found # <<>>
                 THEN socials_found ELSE pass1.socials,
     phone |-> IF pass1.phone = "NA" /\ phone_found # <<>>
               THEN phone_found[1].v ELSE pass1.phone,
     searched |-> (IF pass1.socials = <<>> THEN {"socials"} ELSE {})
                     \cup (IF pass1.phone = "NA" THEN {"phone"} ELSE {})]

\* enrich_and_save_entity: official_website is the result of the website
\* search; site is what the visit of that site gives; socials_found and
\* phone_found are the results of the two fallback searches, used when
\* Pass 1 left the field empty; appendOk tells whether append_row succeeds.
enrich_and_save_entity(entity, official_website, site, socials_found, phone_found, appendOk, websites) ==
    LET cleaned_website == clean_website(official_website)
        pass1 == scrape_official_site(official_website, site)
        pass2 == fallback_pass(pass1, socials_found, phone_found)
        socials == pass2.socials
        phone == pass2.phone
        row == [name |-> entity.name, type |-> entity.type,
                website |-> official_website, phone |-> phone,
                contacts |-> IF pass1.contacts # <<>> THEN joined(pass1.contacts)
                             ELSE <<"NA">>,
                socials |-> IF socials # <<>> THEN joined(socials) ELSE <<"NA">>,
                address |-> pass1.address, source_url |-> entity.source_url,
                notes |-> pass1.notes]
    IN IF cleaned_website # NA /\ cleaned_website \in websites
       THEN [outcome |-> "duplicate", rows |-> <<>>, websites |-> websites,
             pass1 |-> enriched_data0, searched |-> {}]
       ELSE IF JoinRaises(socials) \/ JoinRaises(pass1.contacts)
       THEN [outcome |-> "raised", rows |-> <<>>, websites |-> websites,
             pass1 |-> pass1, searched |-> pass2.searched]
       ELSE IF ~appendOk
       THEN [outcome |-> "append_failed", rows |-> <<>>, websites |-> websites,
             pass1 |-> pass1, searched |-> pass2.searched]
       ELSE [outcome |-> "saved", rows |-> <<row>>,
             websites |-> IF cleaned_website # NA
                          THEN websites \cup {cleaned_website} ELSE websites,
             pass1 |-> pass1, searched |-> pass2.searched]

EnrichInit ==
    /\ rawSheet \in SeqsUpTo(RawRows, MaxRawRows)
    /\ outputSheet = <<>>
    /\ saved_names = {}
    /\ saved_websites = {}
    /\ entities_to_enrich = <<>>
    /\ e_i = 1
    /\ e_pc = "idle"
    /\ e_run = 0
    /\ e_last = NoELast
    /\ attempted = NoAttempts
    /\ RetryIdle
    /\ TriageIdle
    /\ OthersIdle

\* Import of the module and main() up to the loop
StartEnrichRun ==
    /\ e_pc \in {"idle", "done"}
    /\ e_run < MaxEnrichRuns
    /\ saved_websites' = load_saved_websites(outputSheet)
    /\ saved_names' = load_saved_names(outputSheet)
    /\ entities_to_enrich' = select_to_enrich(rawSheet, load_saved_names(outputSheet))
    /\ e_i' = 1
    /\ e_pc' = "loop"
    /\ e_run' = e_run + 1
    /\ e_last' = NoELast
    /\ attempted' = [prev |-> attempted.prev \cup attempted.cur, cur |-> {}]
    /\ UNCHANGED <<rawSheet, outputSheet, rvars, tvars, xvars>>

\* One iteration of the loop of main(): enrich_and_save_entity, then
\* saved_names.add; an exception that escapes enrich_and_save_entity reaches
\* the except clause of main(), which ends the run.
EnrichEntity ==
    /\ e_pc = "loop"
    /\ e_i <= Len(entities_to_enrich)
    /\ LET entity == entities_to_enrich[e_i] IN
       \E official_website \in WebsiteChoices,
          site \in SiteVisits,
          sv \in Searches(FoundReplies),
          pv \in Searches({FoundLate}),
          appendOk \in BOOLEAN :
            LET socials_found == find_missing_data_via_google(sv.visitOk, sv.outs)
                phone_found == find_missing_data_via_google(pv.visitOk, pv.outs)
                res == enrich_and_save_entity(
                           entity, official_website, site, socials_found,
                           phone_found, appendOk, saved_websites)
            IN /\ official_website = NA => site = NoVisit
               /\ outputSheet' = outputSheet \o res.rows
               /\ saved_websites' = res.websites
               /\ e_last' = [outcome |-> res.outcome, name |-> entity.name,
                             site |-> site, pass1 |-> res.pass1,
                             searched |-> res.searched,
                             socials_found |-> IF "socials" \in res.searched
                                               THEN socials_found ELSE <<>>,
                             phone_found |-> IF "phone" \in res.searched
                                             THEN phone_found ELSE <<>>]
               /\ IF res.outcome = "raised"
                  THEN /\ e_pc' = "done"
                       /\ UNCHANGED <<saved_names, e_i>>
                  ELSE /\ e_pc' = "loop"
                       /\ saved_names' = saved_names \cup {lower(entity.name)}
                       /\ e_i' = e_i + 1
               /\ attempted' = [attempted EXCEPT !.cur = @ \cup {entity.name}]
    /\ UNCHANGED <<rawSheet, entities_to_enrich, e_run, rvars, tvars, xvars>>

\* the loop of main() is exhausted
FinishEnrichRun ==
    /\ e_pc = "loop"
    /\ e_i > Len(entities_to_enrich)
    /\ e_pc' = "done"
    /\ e_last' = NoELast
    /\ UNCHANGED <<rawSheet, outputSheet, saved_names, saved_websites,
                   entities_to_enrich, e_i, e_run, attempted, rvars, tvars, xvars>>

EnrichNext == StartEnrichRun \/ EnrichEntity \/ FinishEnrichRun

SpecEnrich == EnrichInit /\ [][EnrichNext]_vars

\* ---- claims about Enrichment.py
\* C7: an entity the driver attempted in an earlier run, whatever the
\* outcome, is not attempted (not selected) again by a later run started
\* from the persisted store.
C7_AttemptedNeverRetried ==
    e_pc = "loop" =>
        \A k \in 1..Len(entities_to_enrich) :
            entities_to_enrich[k].name \notin attempted.prev

\* C8: an exception raised while one entity is resolved, enriched or saved
\* is caught, the entity is marked processed, and the loop goes on to the
\* next entity.
C8_FailureDoesNotEndBatch ==
    e_last.outcome \in {"raised", "append_failed"} =>
        /\ lower(e_last.name) \in saved_names
        /\ e_pc = "loop"

LastSaved == outputSheet[Len(outputSheet)]

\* C13: when the official website resolves, its page is fetched and the
\* model returns phone / contacts / socials / address for it, the row saved
\* for the entity carries each returned value, and contacts and address are
\* "NA" when the model does not return them.
C13_SiteDataCarried ==
    e_last.outcome = "saved" /\ clean_website(LastSaved.website) # NA
        /\ e_last.site.visitOk =>
        LET info == e_last.site.info IN
        /\ info.phone # "absent" => LastSaved.phone = info.phone
        /\ LastSaved.contacts = IF info.contacts = AbsentData THEN <<"NA">>
                                ELSE joined(info.contacts.items)
        /\ info.socials # AbsentData => LastSaved.socials = joined(info.socials.items)
        /\ LastSaved.address = IF info.address = "absent" THEN "NA" ELSE info.address

\* C14: every Official Website cell of the Discovered Entities sheet is "NA"
\* or a bare lower-cased scheme://host (it equals its own cleaned form), and
\* the cell of the row just saved, when not "NA", is the key held in
\* saved_websites.
C14_StoredWebsiteIsCleaned ==
    /\ \A k \in 1..Len(outputSheet) :
          outputSheet[k].website = clean_website(outputSheet[k].website)
    /\ e_last.outcome = "saved" /\ LastSaved.website # NA =>
          LastSaved.website \in saved_websites

\* C15: an entity whose website normalizes to the scheme://host of a row
\* saved earlier (in this run or in a previous one) is skipped, so no two
\* rows of the Discovered Entities sheet have the same normalized website
\* other than "NA".
C15_NoSharedWebsite ==
    \A j \in 1..Len(outputSheet), k \in 1..Len(outputSheet) :
        j < k /\ clean_website(outputSheet[j].website) # NA =>
            clean_website(outputSheet[j].website) # clean_website(outputSheet[k].website)

\* C23: a fallback search for socials is issued exactly when the website
\* pass left no socials, one for phone exactly when the phone is still "NA";
\* the saved field holds the search result when a search was issued and
\* returned something, and what the website pass left otherwise.
C23_FallbackOnlyForMissing ==
    /\ e_last.outcome \in {"saved", "append_failed", "raised"} =>
          /\ "socials" \in e_last.searched <=> e_last.pass1.socials = <<>>
          /\ "phone" \in e_last.searched <=> e_last.pass1.phone = "NA"
    /\ e_last.outcome = "saved" =>
          /\ LastSaved.socials =
                IF "socials" \in e_last.searched /\ e_last.socials_found # <<>>
                THEN joined(e_last.socials_found)
                ELSE IF e_last.pass1.socials # <<>>
                THEN joined(e_last.pass1.socials) ELSE <<"NA">>
          /\ LastSaved.phone =
                IF "phone" \in e_last.searched /\ e_last.phone_found # <<>>
                THEN e_last.phone_found[1].v
                ELSE e_last.pass1.phone

\* a phone search that returned a number, and a socials search that
\* returned nothing: the phone is replaced, the socials cell stays "NA"
C23_Witness ==
    /\ e_last.outcome = "saved"
    /\ e_last.searched = {"socials", "phone"}
    /\ e_last.socials_found = <<>>
    /\ e_last.phone_found # <<>>
    /\ LastSaved.phone = e_last.phone_found[1].v
    /\ LastSaved.socials = <<"NA">>

OutputColumns ==
    {"name", "type", "website", "phone", "contacts", "socials", "address",
     "source_url", "notes"}

\* C20: every row on the Discovered Entities sheet has exactly the nine
\* columns of the header and no blank cell: a field without data holds "NA".
C20_NineCellsNoneBlank ==
    \A k \in 1..Len(outputSheet) :
        LET row == outputSheet[k] IN
        /\ DOMAIN row = OutputColumns
        /\ row.name # <<>>
        /\ row.type # ""
        /\ row.website # BlankUrl
        /\ row.phone # ""
        /\ row.contacts # <<>>
        /\ row.socials # <<>>
        /\ row.address # ""
        /\ row.source_url # ""
        /\ row.notes # ""

\* ---------------------------------------------------- ai_discovery_agent.py
MaxMissions == 2
MaxSourceUrls == 2

KEYWORDS_PER_MISSION == 5
MAX_SOURCE_URLS_PER_KEYWORD == 3
MAX_ENTITIES_PER_SOURCE == 15

Take(seq, n) == SubSeq(seq, 1, IF Len(seq) < n THEN Len(seq) ELSE n)

\* ---- what the model may answer to the keyword prompt
KwObj(items) == [JBase EXCEPT !.keywords = FoundList(items)]

KeywordReplies ==
    { <<Obj(KwObj(<<Item(TRUE, <<"g", "l">>), Item(TRUE, <<"g", "l", " ">>)>>))>>,
      <<Obj(KwObj(<<Item(TRUE, <<"g", "l">>), Item(TRUE, <<"s", "c">>)>>))>>,
      <<Junk, Obj(KwObj(<<Item(TRUE, <<"s", "c">>)>>))>>,
      <<Obj(KwObj(<<Item(TRUE, <<" ">>)>>))>>,
      <<Obj(KwObj(<<Item(FALSE, <<"9", "8">>)>>))>>,
      <<Obj(KwObj(<<>>))>>,
      <<Obj([JBase EXCEPT !.other = TRUE])>>,
      <<ListTok>>,
      <<Junk, ListTok>>,
      <<ScalarTok>>,
      <<Junk>> }

KeywordLate == <<Obj(KwObj(<<Item(TRUE, <<"g", "l">>)>>))>>

\* ---- what the model may answer to the entity prompt; an item of the
\* "entities" list is a dict with the keys it has, or something else
Entity(name, type) == [isDict |-> TRUE, name |-> name, type |-> type]
NotADict == [isDict |-> FALSE, name |-> <<>>, type |-> <<>>]
EntObj(items) == [JBase EXCEPT !.entities = FoundList(items)]

EntityReplies ==
    { <<Nested(EntObj(<<Entity(<<"G", "l">>, <<"L">>)>>))>>,
      <<Nested(EntObj(<<Entity(<<"G", "l">>, <<"L">>), Entity(<<"g", "l">>, <<"l">>)>>))>>,
      <<Fence, Nested(EntObj(<<Entity(<<>>, <<"L">>), Entity(<<"S", "c">>, <<"L">>)>>)), EndFence>>,
      <<Junk, Nested(EntObj(<<Entity(<<"S", "c">>, <<"L">>)>>))>>,
      <<Obj(EntObj(<<NotADict>>))>>,
      <<Obj(EntObj(<<>>))>>,
      <<Obj([JBase EXCEPT !.other = TRUE])>>,
      <<ListTok>>,
      <<ScalarTok>>,
      <<Junk>> }

EntityLate == <<Nested(EntObj(<<Entity(<<"S", "c">>, <<"L">>)>>))>>

\* parsed.get(key, []) if parsed else []: parsed.get raises AttributeError
\* when parsed is a list, a number or a string
GetRaises(parsed) == Truthy(parsed) /\ parsed.t # "obj"

call_gemini_for_discovery_keywords(outs) ==
    LET r == call_gemini_with_retry("ai_discovery_agent", outs)
        parsed == discovery_safe_parse_json_from_text(response_text(r))
    IN [answered |-> ~r.isNone, shape |-> parsed.t, raised |-> GetRaises(parsed),
        items |-> IF Truthy(parsed) /\ Has(parsed, "keywords")
                  THEN parsed.keywords.items ELSE <<>>]

call_gemini_to_extract_entities_from_page(outs) ==
    LET r == call_gemini_with_retry("ai_discovery_agent", outs)
        parsed == discovery_safe_parse_json_from_text(response_text(r))
    IN [answered |-> ~r.isNone, shape |-> parsed.t, raised |-> GetRaises(parsed),
        items |-> IF Truthy(parsed) /\ Has(parsed, "entities")
                  THEN parsed.entities.items ELSE <<>>]

\* list(dict.fromkeys([k.strip() for k in keywords if k.strip()]))[:5];
\* k.strip raises AttributeError on an item that is not a str
StripRaises(items) == \E n \in 1..Len(items) : ~items[n].isStr

RECURSIVE fromkeys(_, _)
fromkeys(seq, seen) ==
    IF seq = <<>> THEN <<>>
    ELSE IF Head(seq) \in seen THEN fromkeys(Tail(seq), seen)
    ELSE <<Head(seq)>> \o fromkeys(Tail(seq), seen \cup {Head(seq)})

clean_keywords(items) ==
    LET stripped == [n \in 1..Len(items) |-> strip(items[n].v)]
        nonblank(k) == k # <<>>
    IN Take(fromkeys(SelectSeq(stripped, nonblank), {}), KEYWORDS_PER_MISSION)

\* the loop over entities_found[:15]: the rows to save and the grown set;
\* entity.get raises AttributeError on an item that is not a dict
EntityGetRaises(items) ==
    \E n \in 1..Len(Take(items, MAX_ENTITIES_PER_SOURCE)) : ~items[n].isDict

RawEntityKey(e) == <<lower(e.name), lower(e.type)>>

RECURSIVE new_entities(_, _, _)
new_entities(items, existing, source_url) ==
    IF items = <<>> THEN [rows |-> <<>>, existing |-> existing]
    ELSE LET e == Head(items)
             keep == e.name # <<>> /\ e.type # <<>> /\ RawEntityKey(e) \notin existing
             rest == new_entities(Tail(items),
                                  IF keep THEN existing \cup {RawEntityKey(e)} ELSE existing,
                                  source_url)
         IN [rows |-> IF keep
                      THEN <<[name |-> e.name, type |-> e.type, source_url |-> source_url]>>
                               \o rest.rows
                      ELSE rest.rows,
             existing |-> rest.existing]

load_existing_raw_entities(sheet) ==
    {<<lower(sheet[n].name), lower(sheet[n].type)>> : n \in 1..Len(sheet)}

DiscoveryInit ==
    /\ raw_entity_sheet \in
          {<<>>, <<[name |-> <<"G", "l">>, type |-> <<"L">>, source_url |-> <<1, 1>>]>>}
    /\ existing_raw_entities = {}
    /\ d_pc = "idle"
    /\ d_m = 1
    /\ d_keywords = <<>>
    /\ d_k = 1
    /\ d_pages = 0
    /\ d_p = 1
    /\ d_last = NoDLast
    /\ RetryIdle
    /\ TriageIdle
    /\ EnrichIdle
    /\ ParseIdle
    /\ LaterIdle

\* main() up to the mission loop: the browser, the pre-flight check, the
\* load of existing_raw_entities (a failed read is only a warning)
StartDiscovery ==
    /\ d_pc = "idle"
    /\ \E readOk \in BOOLEAN :
          existing_raw_entities' =
              IF readOk THEN load_existing_raw_entities(raw_entity_sheet) ELSE {}
    /\ d_pc' = "mission"
    /\ UNCHANGED <<raw_entity_sheet, d_m, d_keywords, d_k, d_pages, d_p, d_last,
                   rvars, tvars, evars, pvars, zvars>>

\* lines 310-314: the keyword call is made outside the per-keyword try block,
\* so an exception raised by it reaches the except clause of main()
GenerateKeywords ==
    /\ d_pc = "mission"
    /\ d_m <= MaxMissions
    /\ \E outs \in Scenarios(KeywordReplies, KeywordLate) :
          LET c == call_gemini_for_discovery_keywords(outs)
              raised == c.raised \/ (c.items # <<>> /\ StripRaises(c.items))
              kws == IF raised THEN <<>> ELSE clean_keywords(c.items)
          IN /\ d_last' = [call |-> "keywords", answered |-> c.answered,
                           shape |-> c.shape, raised |-> raised, data |-> Len(kws)]
             /\ IF raised
                THEN d_pc' = "aborted" /\ UNCHANGED <<d_m, d_keywords, d_k>>
                ELSE IF c.items = <<>>
                THEN d_pc' = "mission" /\ d_m' = d_m + 1
                         /\ UNCHANGED <<d_keywords, d_k>>
                ELSE d_pc' = "keyword" /\ d_keywords' = kws /\ d_k' = 1
                         /\ UNCHANGED d_m
    /\ UNCHANGED <<raw_entity_sheet, existing_raw_entities, d_pages, d_p,
                   rvars, tvars, evars, pvars, zvars>>

\* lines 316-346: the search for one keyword; an exception inside the try
\* block is logged and the loop goes to the next keyword
SearchKeyword ==
    /\ d_pc = "keyword"
    /\ d_k <= Len(d_keywords)
    /\ \E searchOk \in BOOLEAN, found \in 0..MaxSourceUrls :
          IF searchOk /\ found > 0
          THEN /\ d_pc' = "page"
               /\ d_pages' = IF found < MAX_SOURCE_URLS_PER_KEYWORD
                             THEN found ELSE MAX_SOURCE_URLS_PER_KEYWORD
               /\ d_p' = 1
               /\ UNCHANGED d_k
          ELSE /\ d_k' = d_k + 1
               /\ UNCHANGED <<d_pc, d_pages, d_p>>
    /\ d_last' = NoDLast
    /\ UNCHANGED <<raw_entity_sheet, existing_raw_entities, d_m, d_keywords,
                   rvars, tvars, evars, pvars, zvars>>

\* lines 348-378: one source page; a page that cannot be loaded is skipped;
\* an exception raised by the entity call or by entity.get is caught by the
\* per-keyword handler, which leaves the remaining pages of the keyword
ProcessPage ==
    /\ d_pc = "page"
    /\ d_p <= d_pages
    /\ \E loadOk \in BOOLEAN, appendOk \in BOOLEAN,
          outs \in Scenarios(EntityReplies, EntityLate) :
          LET c == call_gemini_to_extract_entities_from_page(outs)
              raised == c.raised \/ EntityGetRaises(c.items)
              new == new_entities(Take(c.items, MAX_ENTITIES_PER_SOURCE),
                                  existing_raw_entities, <<d_k, d_p>>)
          IN IF ~loadOk
             THEN /\ d_p' = d_p + 1
                  /\ d_last' = NoDLast
                  /\ UNCHANGED <<raw_entity_sheet, existing_raw_entities, d_pc, d_k>>
             ELSE /\ d_last' = [call |-> "entities", answered |-> c.answered,
                                shape |-> c.shape, raised |-> raised,
                                data |-> IF raised THEN 0 ELSE Len(new.rows)]
                  /\ IF raised
                     THEN /\ d_pc' = "keyword"
                          /\ d_k' = d_k + 1
                          /\ UNCHANGED <<raw_entity_sheet, existing_raw_entities, d_p>>
                     ELSE /\ existing_raw_entities' = new.existing
                          /\ raw_entity_sheet' =
                                IF appendOk THEN raw_entity_sheet \o new.rows
                                ELSE raw_entity_sheet
                          /\ d_p' = d_p + 1
                          /\ UNCHANGED <<d_pc, d_k>>
    /\ UNCHANGED <<d_m, d_keywords, d_pages, rvars, tvars, evars, pvars, zvars>>

\* the loop over the source pages of a keyword is exhausted
NextKeyword ==
    /\ d_pc = "page"
    /\ d_p > d_pages
    /\ d_pc' = "keyword"
    /\ d_k' = d_k + 1
    /\ d_last' = NoDLast
    /\ UNCHANGED <<raw_entity_sheet, existing_raw_entities, d_m, d_keywords,
                   d_pages, d_p, rvars, tvars, evars, pvars, zvars>>

\* the loop over the keywords of a mission is exhausted
NextMission ==
    /\ d_pc = "keyword"
    /\ d_k > Len(d_keywords)
    /\ d_pc' = "mission"
    /\ d_m' = d_m + 1
    /\ d_last' = NoDLast
    /\ UNCHANGED <<raw_entity_sheet, existing_raw_entities, d_keywords, d_k,
                   d_pages, d_p, rvars, tvars, evars, pvars, zvars>>

\* the loop over the missions is exhausted
FinishDiscovery ==
    /\ d_pc = "mission"
    /\ d_m > MaxMissions
    /\ d_pc' = "done"
    /\ d_last' = NoDLast
    /\ UNCHANGED <<raw_entity_sheet, existing_raw_entities, d_m, d_keywords, d_k,
                   d_pages, d_p, rvars, tvars, evars, pvars, zvars>>

DiscoveryNext ==
    \/ StartDiscovery
    \/ GenerateKeywords
    \/ SearchKeyword
    \/ ProcessPage
    \/ NextKeyword
    \/ NextMission
    \/ FinishDiscovery

SpecDiscovery == DiscoveryInit /\ [][DiscoveryNext]_vars

\* ---- claims about ai_discovery_agent.py
\* C12: when the reply to the keyword prompt or to the entity prompt is not
\* JSON, or parses to a list or a scalar instead of an object, the call
\* yields no data and main() is still running its loops: the run is not
\* aborted.
C12_MalformedReplyIsNoData ==
    d_last.call \in {"keywords", "entities"} /\ d_last.answered
        /\ d_last.shape \in {"none", "list", "scalar"} =>
        /\ d_last.data = 0
        /\ d_pc \in {"mission", "keyword", "page"}

\* ------------------------------ specification of safe_parse_json_from_text
MaxTextLen == 4

ObjA == Obj([JBase EXCEPT !.tier = "P3"])
ObjB == Obj([JBase EXCEPT !.tier = "P4"])
NestedC == Nested([JBase EXCEPT !.other = TRUE])

ParseToks ==
    {Junk, Fence, EndFence, BadObj, ListTok, ScalarTok, ObjA, ObjB, NestedC}
ParseTexts == SeqsUpTo(ParseToks, MaxTextLen)

ParseInit ==
    /\ p_text \in ParseTexts
    /\ p_pc = "called"
    /\ p_result = None
    /\ RetryIdle
    /\ TriageIdle
    /\ EnrichIdle
    /\ DiscoveryIdle
    /\ LaterIdle

\* the call returns; no statement of the function raises outside a handler
ParseText ==
    /\ p_pc = "called"
    /\ p_result' = safe_parse_json_from_text(p_text)
    /\ p_pc' = "returned"
    /\ UNCHANGED <<p_text, rvars, tvars, evars, dvars, zvars>>

ParseNext == ParseText

SpecParse == ParseInit /\ [][ParseNext]_vars

\* C11: safe_parse_json_from_text returns the direct parse of the whole
\* text when that parses; else the parse of the fenced json block when there
\* is one and it parses; else the parse of the first bare {...} span when
\* there is one and it parses; else (and for an empty text) None.
C11_ParseOrder ==
    p_pc = "returned" =>
        LET failed == [ok |-> FALSE, v |-> None]
            direct == IF p_text = <<>> THEN failed ELSE json_loads(p_text)
            fenced == IF FencedStarts(p_text) = {} THEN failed
                      ELSE json_loads(FencedBlob(p_text))
            bare == IF BareStarts(p_text) = {} THEN failed
                    ELSE json_loads(BareBlob(p_text))
        IN /\ direct.ok => p_result = direct.v
           /\ ~direct.ok /\ fenced.ok => p_result = fenced.v
           /\ ~direct.ok /\ ~fenced.ok /\ bare.ok => p_result = bare.v
           /\ ~direct.ok /\ ~fenced.ok /\ ~bare.ok => p_result = None

\* a text whose bare span and fenced block both parse, to different values:
\* the fenced block wins
C11_Witness ==
    /\ p_pc = "returned"
    /\ p_text = <<ObjA, Fence, ObjB, EndFence>>
    /\ p_result = ObjB.v

\* every strategy failed on a text that holds a fenced block: None
C11_WitnessNone ==
    /\ p_pc = "returned"
    /\ p_text = <<Fence, BadObj, EndFence>>
    /\ p_result = None

\* ------------------------------------------------------------------ main.py
MaxMainRuns == 2
MaxCheckpoints == 3

\* the lines a text file yields when iterated, line ends removed
RECURSIVE FileLines(_, _)
FileLines(f, cur) ==
    IF f = <<>> THEN (IF cur = <<>> THEN <<>> ELSE <<cur>>)
    ELSE IF Head(f) = NL THEN <<cur>> \o FileLines(Tail(f), <<>>)
    ELSE FileLines(Tail(f), Append(cur, Head(f)))

Range(q) == {q[k] : k \in 1..Len(q)}

main_load_processed_entities(f) == {lower(strip(line)) : line \in Range(FileLines(f, <<>>))}

\* open(..., 'a') and one write: the earlier characters stay
checkpoint_entity(f, entity_name) == f \o lower(entity_name) \o <<NL>>

\* item.get_text(strip=True) of a list item: stripped at both ends, the
\* white space inside the text kept
EntityTexts ==
    { <<"G", "l">>, <<"g", "l">>, <<"S", " ", "c">>, <<"S", NL, "c">> }

\* why an entity leaves the qualifying loop; every way ends in checkpoint_entity
QualifyOutcomes == {"no_website", "excluded", "da", "followers", "saved"}

MainInit ==
    /\ processed_entities_file = <<>>
    /\ main_processed_entities = {}
    /\ m_pc = "idle"
    /\ m_run = 0
    /\ m_checkpointed = NoAttempts
    /\ m_last = NoMLast
    /\ RetryIdle
    /\ TriageIdle
    /\ EnrichIdle
    /\ ParseIdle
    /\ DiscoveryIdle
    /\ WebsiteIdle
    /\ MapIdle
    /\ AnchorsIdle

\* a new process: main() up to the qualifying loop
StartMain ==
    /\ m_pc \in {"idle", "done"}
    /\ m_run < MaxMainRuns
    /\ main_processed_entities' = main_load_processed_entities(processed_entities_file)
    /\ m_pc' = "qualify"
    /\ m_run' = m_run + 1
    /\ m_checkpointed' = [prev |-> m_checkpointed.prev \cup m_checkpointed.cur,
                          cur |-> {}]
    /\ m_last' = [NoMLast EXCEPT !.kind = "load"]
    /\ UNCHANGED <<processed_entities_file, mframe>>

\* one iteration of the qualifying loop on an entity of master_entity_list
QualifyEntity ==
    /\ m_pc = "qualify"
    /\ Len(FileLines(processed_entities_file, <<>>)) < MaxCheckpoints
    /\ \E entity_name \in EntityTexts, outcome \in QualifyOutcomes :
          IF lower(entity_name) \in main_processed_entities
          THEN /\ m_last' = [kind |-> "skip", name |-> entity_name,
                             before |-> processed_entities_file]
               /\ UNCHANGED <<processed_entities_file, m_checkpointed>>
          ELSE /\ processed_entities_file' =
                      checkpoint_entity(processed_entities_file, entity_name)
               /\ m_checkpointed' = [m_checkpointed EXCEPT !.cur = @ \cup {entity_name}]
               /\ m_last' = [kind |-> outcome, name |-> entity_name,
                             before |-> processed_entities_file]
    /\ UNCHANGED <<main_processed_entities, m_pc, m_run, mframe>>

\* the loops of main() are exhausted and the process ends
FinishMain ==
    /\ m_pc = "qualify"
    /\ m_pc' = "done"
    /\ m_last' = NoMLast
    /\ UNCHANGED <<processed_entities_file, main_processed_entities, m_run,
                   m_checkpointed, mframe>>

MainNext == StartMain \/ QualifyEntity \/ FinishMain

SpecMain == MainInit /\ [][MainNext]_vars

IsPrefix(a, b) == Len(a) <= Len(b) /\ SubSeq(b, 1, Len(a)) = a

\* C21: checkpoint_entity leaves the earlier characters of the file in
\* place, and a name it was given in an earlier process is matched by the
\* skip test of the qualifying loop against the set a new process loads.
C21_CommittedKeyIsSkipped ==
    /\ m_last.kind \in QualifyOutcomes =>
          IsPrefix(m_last.before, processed_entities_file)
    /\ m_pc = "qualify" =>
          \A entity_name \in m_checkpointed.prev :
              lower(entity_name) \in main_processed_entities

\* ------------------------- find_official_website_via_search (Enrichment.py)
MaxResults == 6
TopResults == 5

\* two entries of BLACKLIST_DOMAINS
BLACKLIST_DOMAINS == {"facebook.com", "amazon."}

\* the characters of a netloc in pieces, cut so that a blacklist entry that
\* occurs in the netloc is one of the pieces
NetlocPieces(netloc) ==
    CASE netloc = "m.facebook.com" -> <<"m.", "facebook.com">>
      [] netloc = "amazon.in" -> <<"amazon.", "in">>
      [] OTHER -> <<netloc>>

Mut_is_blacklisted(url) == FALSE

is_blacklisted(url) ==
    LET domain == LowerHost(url.host)
    IN domain # "" /\ \E b \in BLACKLIST_DOMAINS : b \in Range(NetlocPieces(domain))

\* a result heading whose link cannot be found or has no href
NoHref == [scheme |-> "", host |-> "", path |-> "none"]

Heading(title, url) == [title |-> title, url |-> url]

Headings ==
    { Heading("t1", Url("https", "gl.com", "")),
      Heading("t2", Url("https", "sc.org", "/a")),
      Heading("t3", Url("https", "M.Facebook.com", "/gl")),
      Heading("t4", NoHref),
      Heading("t5", Url("ftp", "gl.com", "")) }

\* the loop over h3_elements[:5] from the k-th heading on; pos records the
\* place of the heading on the page
RECURSIVE candidates_from(_, _)
candidates_from(elems, k) ==
    IF k > Len(elems) \/ k > TopResults THEN <<>>
    ELSE LET url == elems[k].url
             keep == /\ url # NoHref
                     /\ url.scheme \in {"http", "https"}
                     /\ ~is_blacklisted(url)
         IN (IF keep THEN <<[title |-> elems[k].title, url |-> url, pos |-> k]>>
             ELSE <<>>) \o candidates_from(elems, k + 1)

BestUrl(url) == Obj([JBase EXCEPT !.best_url = url])

CensorReplies ==
    { <<BestUrl(Url("https", "gl.com", ""))>>,
      <<Junk, BestUrl(Url("https", "sc.org", "/a"))>>,
      <<BestUrl(NA)>>,
      <<BestUrl(Url("https", "M.Facebook.com", "/gl"))>>,
      <<Junk>> }

\* the value call_gemini_to_censor_links returns
call_gemini_to_censor_links(outs) ==
    LET r == call_gemini_with_retry("Enrichment", outs)
        parsed == safe_parse_json_from_text(response_text(r))
    IN IF Truthy(parsed) /\ Has(parsed, "best_url") THEN parsed.best_url ELSE NA

WebsiteInit ==
    /\ h3_elements \in SeqsUpTo(Headings, MaxResults)
    /\ candidates = <<>>
    /\ w_pc = "search"
    /\ w_reply = <<>>
    /\ w_return = NA
    /\ RetryIdle
    /\ TriageIdle
    /\ EnrichIdle
    /\ ParseIdle
    /\ DiscoveryIdle
    /\ MainIdle
    /\ MapIdle
    /\ AnchorsIdle

\* driver.get or the wait for the results raises: "NA"
SearchFails ==
    /\ w_pc = "search"
    /\ w_pc' = "returned"
    /\ w_return' = NA
    /\ UNCHANGED <<h3_elements, candidates, w_reply, wframe>>

\* the candidates loop; without a candidate the function returns "NA"
CollectCandidates ==
    /\ w_pc = "search"
    /\ candidates' = candidates_from(h3_elements, 1)
    /\ w_pc' = IF candidates' = <<>> THEN "returned" ELSE "censor"
    /\ w_return' = NA
    /\ UNCHANGED <<h3_elements, w_reply, wframe>>

\* the censor's pick is returned unless it is "NA"
CensorLinks ==
    /\ w_pc = "censor"
    /\ \E outs \in {<<OutText(t), OutEmpty, OutEmpty>> : t \in CensorReplies}
                     \cup {NeverAnswered} :
          /\ w_reply' = outs
          /\ w_return' = call_gemini_to_censor_links(outs)
    /\ w_pc' = "returned"
    /\ UNCHANGED <<h3_elements, candidates, wframe>>

WebsiteNext == SearchFails \/ CollectCandidates \/ CensorLinks

SpecWebsite == WebsiteInit /\ [][WebsiteNext]_vars

\* the host of a URL holds a blacklisted domain
HostOnBlacklist(url) ==
    \E b \in BLACKLIST_DOMAINS : b \in Range(NetlocPieces(LowerHost(url.host)))

\* C24: the list handed to the censor has at most 5 entries, its entries
\* are result headings in page order, and none has a blacklisted host.
C24_CandidateList ==
    /\ Len(candidates) <= 5
    /\ \A k \in 1..Len(candidates) :
          /\ candidates[k].pos \in 1..Len(h3_elements)
          /\ h3_elements[candidates[k].pos].url = candidates[k].url
          /\ h3_elements[candidates[k].pos].title = candidates[k].title
          /\ ~HostOnBlacklist(candidates[k].url)
    /\ \A j \in 1..Len(candidates), k \in 1..Len(candidates) :
          j < k => candidates[j].pos < candidates[k].pos

\* six headings, the second blacklisted, the sixth a plain site: four
\* candidates, the sixth heading not among them
C24_Witness ==
    /\ w_pc = "censor"
    /\ Len(h3_elements) = 6
    /\ HostOnBlacklist(h3_elements[2].url)
    /\ h3_elements[6].url = Url("https", "gl.com", "")
    /\ Len(candidates) = 4
    /\ candidates[4].pos = 5

\* C29: the value find_official_website_via_search returns (the Official
\* Website cell of the row) is "NA" or the URL of one of the candidates
\* shown to the censor.
C29_WebsiteAmongCandidates ==
    w_pc = "returned" =>
        \/ w_return = NA
        \/ \E k \in 1..Len(candidates) : candidates[k].url = w_return

\* --------------------------- map_entities_from_source (discovery_script.py)
MaxItems == 2
MinNameLen == 4
MaxNameLen == 100

\* two entries of STOP_WORDS, one of SOCIAL_DOMAINS
STOP_WORDS == {"home", "press"}
SOCIAL_DOMAINS == {"facebook.com"}

\* A link text is the sequence of its words and blanks.
LowerName(w) ==
    CASE w = "Home" -> "home"
      [] w = "Press" -> "press"
      [] w = "Gir" -> "gir"
      [] w = "Lions" -> "lions"
      [] w = "Sport" -> "sport"
      [] w = "Club" -> "club"
      [] w = "Rajkot" -> "rajkot"
      [] OTHER -> w

RECURSIVE TextLen(_)
TextLen(text) == IF text = <<>> THEN 0 ELSE Len(Head(text)) + TextLen(Tail(text))

\* stop_word in entity_name.lower(), for stop words that are one word
HoldsStopWord(text) == \E k \in 1..Len(text) : LowerName(text[k]) \in STOP_WORDS

Mut_accept_name(entity_name) == TRUE

\* lines 118-120
accept_name(entity_name) ==
    /\ MinNameLen < TextLen(entity_name)
    /\ TextLen(entity_name) < MaxNameLen
    /\ " " \in Range(entity_name)
    /\ ~HoldsStopWord(entity_name)
    /\ ".pdf" \notin Range(entity_name)

\* not href, or href.startswith(('#', 'mailto:', 'javascript:'))
skip_href(href) ==
    \/ href = NoHref
    \/ href.scheme \in {"mailto", "javascript"}
    \/ href.scheme = "" /\ href.host = "" /\ href.path = "#top"

\* urljoin(base_url, href) for an absolute href and for a path
urljoin(base_url, href) ==
    IF href.scheme # "" THEN href
    ELSE Url(base_url.scheme, base_url.host, href.path)

\* f"{parsed_uri.scheme}://{domain}"
origin(url) == Url(url.scheme, url.host, "")

is_social(domain) ==
    \E social \in SOCIAL_DOMAINS : social \in Range(NetlocPieces(domain))

PageItem(hasLink, text, href) == [hasLink |-> hasLink, text |-> text, href |-> href]

HomeText == <<"Home">>
ShortText == <<"Gir">>
ClubText == <<"Gir", " ", "Lions", " ", "Sport", " ", "Club">>
PressText == <<"Rajkot", " ", "Press", " ", "Club">>

PageItems ==
    { PageItem(FALSE, <<>>, NoHref),
      PageItem(TRUE, HomeText, Url("", "", "/")),
      PageItem(TRUE, ShortText, Url("", "", "/gir")),
      PageItem(TRUE, ClubText, Url("", "", "/clubs/gl")),
      PageItem(TRUE, ClubText, Url("https", "gl.com", "/about")),
      PageItem(TRUE, ClubText, Url("https", "m.facebook.com", "/gl")),
      PageItem(TRUE, PressText, Url("https", "sc.org", "")),
      PageItem(TRUE, ClubText, Url("", "", "#top")) }

BaseUrls == {Url("https", "dfa.org", "/list"), Url("https", "m.facebook.com", "/dfa")}

\* the loop over soup.find_all(['li', 'tr']) from the k-th item on; an
\* exception at item fails_at ends the loop with the leads found before it
RECURSIVE leads_from(_, _, _, _, _)
leads_from(items, base_url, k, fails_at, leads) ==
    IF k > Len(items) \/ k = fails_at THEN leads
    ELSE LET item == items[k]
             entity_website == urljoin(base_url, item.href)
             domain == entity_website.host
             keep == /\ item.hasLink
                     /\ accept_name(item.text)
                     /\ ~skip_href(item.href)
                     /\ domain # ""
                     /\ ~is_social(domain)
             lead == [name |-> item.text, website |-> origin(entity_website)]
         IN leads_from(items, base_url, k + 1, fails_at,
                       IF keep THEN {l \in leads : l.name # item.text} \cup {lead}
                       ELSE leads)

map_entities_from_source(items, base_url, fails_at) ==
    leads_from(items, base_url, 1, fails_at, {})

MapInit ==
    /\ f_items \in SeqsUpTo(PageItems, MaxItems)
    /\ f_base_url \in BaseUrls
    /\ f_fails_at \in 0..MaxItems
    /\ f_pc = "called"
    /\ f_leads = {}
    /\ RetryIdle
    /\ TriageIdle
    /\ EnrichIdle
    /\ ParseIdle
    /\ DiscoveryIdle
    /\ MainIdle
    /\ WebsiteIdle
    /\ AnchorsIdle

\* the call returns; an exception inside the try block is logged
MapEntities ==
    /\ f_pc = "called"
    /\ f_leads' = map_entities_from_source(f_items, f_base_url, f_fails_at)
    /\ f_pc' = "returned"
    /\ UNCHANGED <<f_items, f_base_url, f_fails_at, fframe>>

MapNext == MapEntities

SpecMapEntities == MapInit /\ [][MapNext]_vars

\* the items of the page the loop got through
Reached == {k \in 1..Len(f_items) : f_fails_at = 0 \/ k < f_fails_at}

RelativeClub(k) ==
    /\ f_items[k].hasLink
    /\ f_items[k].text = ClubText
    /\ f_items[k].href = Url("", "", "/clubs/gl")

\* the rest of claim C25: what both readings of it agree on
C25_Filters ==
    /\ \A l \in f_leads :
          /\ l.name # HomeText
          /\ TextLen(l.name) # 3
          /\ ~is_social(l.website.host)
    /\ \A k \in Reached :
          RelativeClub(k) /\ ~is_social(f_base_url.host) =>
              \E l \in f_leads : l.name = ClubText

C25_WitnessRaise ==
    /\ f_pc = "returned"
    /\ f_fails_at = 2
    /\ Len(f_items) = 2
    /\ RelativeClub(1)
    /\ Cardinality(f_leads) = 1

\* ------------------------------------------------------ discovery_script.py
MaxScriptRuns == 2
MaxKeywords == 2
MaxAnchors == 2

load_processed_anchors(f) == {strip(line) : line \in Range(FileLines(f, <<>>))}

checkpoint_anchor(f, url) == f \o url \o <<NL>>

\* the names map_entities_from_source finds on a page
LeadSets == {{}, {"n1"}, {"n1", "n2"}}

\* column A of the sheet; an HttpError gives the empty set
get_existing_entities(sheet, readOk) ==
    IF readOk THEN {sheet[k].name : k \in 1..Len(sheet)} ELSE {}

\* The loop of main() over leads_by_source from the n-th source on: sources
\* is the key order of the dict, failing the sources whose append raises
\* inside save_entities_to_sheet.
RECURSIVE save_leads(_, _, _, _, _, _, _)
save_leads(sources, n, leads, keyword, failing, sheet, existing) ==
    IF n > Len(sources) THEN [sheet |-> sheet, existing |-> existing]
    ELSE LET source_url == sources[n]
             fresh == leads[source_url] \ existing
             rows == IF "n1" \in fresh
                     THEN <<[name |-> "n1", source_url |-> source_url, keyword |-> keyword]>>
                     ELSE <<>>
             rows2 == IF "n2" \in fresh
                      THEN <<[name |-> "n2", source_url |-> source_url, keyword |-> keyword]>>
                      ELSE <<>>
         IN save_leads(sources, n + 1, leads, keyword, failing,
                       IF source_url \in failing THEN sheet ELSE sheet \o rows \o rows2,
                       existing \cup fresh)

AnchorsInit ==
    /\ anchors_file = <<>>
    /\ processed_anchors = {}
    /\ master_sheet = <<>>
    /\ existing_entities = {}
    /\ a_pc = "idle"
    /\ a_run = 0
    /\ a_kw = 1
    /\ urls_to_visit = <<>>
    /\ a_u = 1
    /\ all_found_leads = NoLeads
    /\ a_fetched = <<>>
    /\ a_found = NoLeads
    /\ RetryIdle
    /\ TriageIdle
    /\ EnrichIdle
    /\ ParseIdle
    /\ DiscoveryIdle
    /\ MainIdle
    /\ WebsiteIdle
    /\ MapIdle

\* a new process: main() up to the loop over the keywords
StartScript ==
    /\ a_pc \in {"idle", "done"}
    /\ a_run < MaxScriptRuns
    /\ \E readOk \in BOOLEAN :
          existing_entities' = get_existing_entities(master_sheet, readOk)
    /\ processed_anchors' = load_processed_anchors(anchors_file)
    /\ a_pc' = "keyword"
    /\ a_run' = a_run + 1
    /\ a_kw' = 1
    /\ urls_to_visit' = <<>>
    /\ a_u' = 1
    /\ all_found_leads' = NoLeads
    /\ a_fetched' = <<>>
    /\ UNCHANGED <<anchors_file, master_sheet, a_found, aframe>>

\* search_and_scrape_leads up to the loop over the URLs: the result links,
\* de-duplicated unless they were read after the manual step; a failure of
\* the browser session gives no URL
SearchAnchors ==
    /\ a_pc = "keyword"
    /\ a_kw <= MaxKeywords
    /\ \E urls \in SeqsUpTo(AnchorUrls, MaxAnchors), manual \in BOOLEAN :
          urls_to_visit' = IF manual THEN urls ELSE fromkeys(urls, {})
    /\ a_u' = 1
    /\ all_found_leads' = NoLeads
    /\ a_pc' = "visit"
    /\ UNCHANGED <<anchors_file, processed_anchors, master_sheet, existing_entities,
                   a_run, a_kw, a_fetched, a_found, aframe>>

\* one iteration of the loop over urls_to_visit: a URL of processed_anchors
\* is skipped; any other is fetched and then checkpointed, whether the
\* fetch and the parse succeed (leads) or raise
VisitAnchor ==
    /\ a_pc = "visit"
    /\ a_u <= Len(urls_to_visit)
    /\ LET url == urls_to_visit[a_u] IN
          IF url \in processed_anchors
          THEN UNCHANGED <<anchors_file, all_found_leads, a_fetched, a_found>>
          ELSE \E leads \in LeadSets, raised \in BOOLEAN :
                  LET found == IF raised THEN {} ELSE leads IN
                  /\ a_fetched' = Append(a_fetched, url)
                  /\ a_found' = [a_found EXCEPT ![url] = found]
                  /\ all_found_leads' =
                        IF found # {} THEN [all_found_leads EXCEPT ![url] = found]
                        ELSE all_found_leads
                  /\ anchors_file' = checkpoint_anchor(anchors_file, url)
    /\ a_u' = a_u + 1
    /\ UNCHANGED <<processed_anchors, master_sheet, existing_entities, a_pc, a_run,
                   a_kw, urls_to_visit, aframe>>

\* search_and_scrape_leads returns and main() saves the leads of each source
SaveLeads ==
    /\ a_pc = "visit"
    /\ a_u > Len(urls_to_visit)
    /\ LET sources == SelectSeq(fromkeys(a_fetched, {}),
                                LAMBDA u : all_found_leads[u] # {})
       IN \E failing \in SUBSET Range(sources) :
             LET res == save_leads(sources, 1, all_found_leads, a_kw, failing,
                                   master_sheet, existing_entities)
             IN /\ master_sheet' = res.sheet
                /\ existing_entities' = res.existing
    /\ a_kw' = a_kw + 1
    /\ a_pc' = "keyword"
    /\ UNCHANGED <<anchors_file, processed_anchors, a_run, urls_to_visit, a_u,
                   all_found_leads, a_fetched, a_found, aframe>>

\* the process is killed while search_and_scrape_leads runs
KillScript ==
    /\ a_pc = "visit"
    /\ a_pc' = "done"
    /\ UNCHANGED <<anchors_file, processed_anchors, master_sheet, existing_entities,
                   a_run, a_kw, urls_to_visit, a_u, all_found_leads, a_fetched,
                   a_found, aframe>>

\* the keywords are exhausted
FinishScript ==
    /\ a_pc = "keyword"
    /\ a_kw > MaxKeywords
    /\ a_pc' = "done"
    /\ UNCHANGED <<anchors_file, processed_anchors, master_sheet, existing_entities,
                   a_run, a_kw, urls_to_visit, a_u, all_found_leads, a_fetched,
                   a_found, aframe>>

AnchorsNext ==
    \/ StartScript
    \/ SearchAnchors
    \/ VisitAnchor
    \/ SaveLeads
    \/ KillScript
    \/ FinishScript

SpecAnchors == AnchorsInit /\ [][AnchorsNext]_vars

Occurrences(q, x) == Cardinality({k \in 1..Len(q) : q[k] = x})

\* C26: a URL loaded from the checkpoint file at startup is not fetched by
\* the process, and no URL is fetched twice by one process.
C26_AnchorFetchedOnce ==
    \A url \in AnchorUrls :
        /\ url \in processed_anchors => Occurrences(a_fetched, url) = 0
        /\ Occurrences(a_fetched, url) <= 1

\* C27: every name found on an anchor whose URL is in the checkpoint file is
\* on the Master Entity Database sheet.
C27_CheckpointAfterSave ==
    \A url \in load_processed_anchors(anchors_file) :
        \A name \in a_found[url] :
            \E k \in 1..Len(master_sheet) : master_sheet[k].name = name

\* ---- routing in triage_agent.py
BufferedTimes(row) ==
    Occurrences(rows_to_save["P1"], row) + Occurrences(rows_to_save["P2"], row)
        + Occurrences(rows_to_save["P3"], row) + Occurrences(rows_to_save["P4"], row)
        + Occurrences(rows_to_save["P5"], row)

\* while the loop runs, a row is in the buffers as many times as it has
\* passed the length check
EachRowOnce ==
    pc = "loop" =>
        \A row \in Range(entities_to_triage) :
            BufferedTimes(row) =
                Cardinality({k \in 1..(i - 1) : /\ entities_to_triage[k] = row
                                                /\ row.ncols >= MinCols})

\* the flush leaves a tier's sheet as it was or appends that tier's buffer
OwnSheetOnly ==
    pc = "loop" /\ pc' = "done" /\ last'.kind = "flush" =>
        \A t \in Tiers :
            tierSheets'[t] \in {tierSheets[t], tierSheets[t] \o rows_to_save[t]}

\* C28: every row that passes the length check is appended, unchanged, to
\* exactly one tier buffer, and the flush appends each buffer to the sheet of
\* its own tier only.
C28_RoutedOnce == [](EachRowOnce) /\ [][OwnSheetOnly]_vars

\* a run whose flush wrote a P1 row and a P4 row, each to its own sheet
C28_Witness ==
    /\ last.kind = "flush"
    /\ appendFailed = {}
    /\ Len(rows_to_save["P1"]) = 1
    /\ Len(rows_to_save["P4"]) = 1
    /\ tierSheets["P1"] = rows_to_save["P1"]
    /\ tierSheets["P4"] = rows_to_save["P4"]
    /\ tierSheets["P5"] = <<>>

\* ---- appends to "Extracted Raw Entities" in ai_discovery_agent.py
AppendedRows ==
    SubSeq(raw_entity_sheet', Len(raw_entity_sheet) + 1, Len(raw_entity_sheet'))

\* the rows one append adds: at most 15, pairwise different keys, and no key
\* that a row of the sheet already holds (a startup row or a row appended
\* earlier in the session)
AppendsOnlyNewPairs ==
    raw_entity_sheet' # raw_entity_sheet =>
        /\ Len(AppendedRows) <= MAX_ENTITIES_PER_SOURCE
        /\ \A n \in 1..Len(AppendedRows) :
              RawEntityKey(AppendedRows[n]) \notin
                  load_existing_raw_entities(raw_entity_sheet)
        /\ \A n, m \in 1..Len(AppendedRows) :
              n # m => RawEntityKey(AppendedRows[n]) # RawEntityKey(AppendedRows[m])

\* C30: no (lower-cased name, lower-cased type) pair is appended twice in a
\* session, a pair the sheet held at startup is never appended, and at most
\* 15 entities per source page and 3 source pages per keyword are processed.
C30_NoPairTwice ==
    [](d_pages <= MAX_SOURCE_URLS_PER_KEYWORD) /\ [][AppendsOnlyNewPairs]_vars

====
